---- MODULE Spec2Model ----
(***************************************************************************)
(* The turn engine of ts-turnbased (src/game.ts, class Game) driving the   *)
(* dice-guessing game SimpleGame (src/test/simple_game.ts, lines 1-221).   *)
(*                                                                         *)
(* Specifications                                                          *)
(*   - Spec: start and playMove on a SimpleGame.                           *)
(*   - LiveSpec: Spec with weak fairness of the players' submissions.      *)
(*   - QuerySpec: Spec with the accessors getPlayersToPlay,                *)
(*     getLatestUpdate and getAllUpdates.                                  *)
(*   - CallerSpec: Spec with getLatestUpdate and a caller that writes to   *)
(*     the update it returned.                                             *)
(*   - ScenarioSpec: the full game of the SimpleGame test.                 *)
(*   - OptionsSpec: new SimpleGame(options) on options of any shape.       *)
(*   - HookSpec: start and playMove on a Game whose hooks are abstract.    *)
(*   - HookThrowSpec: HookSpec with hooks that throw during a turn's       *)
(*     resolution.                                                         *)
(*   - AtgSpec: start and playMove on an AlternatingTurnsGame of the older *)
(*     revision, its hooks abstract.                                       *)
(*   - EventsSpec: playMove and the per-observer accessors on the          *)
(*     SimpleGame of the revision with turn events.                        *)
(*   - TictactoeSpec: start and playMove on a Tictactoe.                   *)
(*   - TictactoeScenarioSpec: the full game of the Tictactoe test.         *)
(*   - TictactoeBoardSpec: Tictactoe on the whole board, after the first   *)
(*     four moves of the test's full game.                                 *)
(*                                                                         *)
(* Conventions                                                             *)
(*   - A JavaScript array is a sequence; index i of the source is index    *)
(*     i + 1 here (At, ArraySet).                                          *)
(*   - A nullable / optional value is None (<<>>) or Some(v) (<<v>>).      *)
(*   - The two arrays allocated by the SimpleGame constructor are heap     *)
(*     objects: the fields publicRolls / privateRolls hold a reference     *)
(*     (PubArr, PrivArr or NullRef) and heap holds the objects' contents,  *)
(*     because rollAllDice writes into them in place.                      *)
(*   - A Map<Player, M> is a sequence of entries in insertion order, which *)
(*     is the order Map.prototype.forEach visits them.                     *)
(*   - last is a history variable: the last call made on the instance and  *)
(*     what came of it. The field turn of a pending entry is a history     *)
(*     field too: the length of updates when the move was submitted.       *)
(***************************************************************************)
EXTENDS Integers, Sequences, FiniteSets, TLC

VARIABLES
    updates,          \* Game.updates
    pendingMoves,     \* Game.pendingMoves
    options,          \* Game.options (sanitized)
    numberOfPlayers,  \* Game.numberOfPlayers
    rollGenerator,    \* SimpleGame.rollGenerator
    highRollers,      \* SimpleGame.highRollers
    highRollsParity,  \* SimpleGame.highRollsParity
    points,           \* SimpleGame.points
    publicRolls,      \* SimpleGame.publicRolls (a reference)
    privateRolls,     \* SimpleGame.privateRolls (a reference)
    lastPrivateRolls, \* SimpleGame.lastPrivateRolls
    heap,             \* contents of the arrays the constructor allocated
    xBoard,           \* Tictactoe.xBoard
    yBoard,           \* Tictactoe.yBoard
    asgMoves,         \* AbstractStrategyGame.moves
    playerToPlay,     \* what AlternatingTurnsGame.getPlayerToPlay() returns
    turnEvents,       \* SimpleGame.turnEvents (the revision with turn events)
    returned,         \* history: the updates initialize / processTurn returned, in call order
    last              \* history: the last call and its outcome

engineVars == <<updates, pendingMoves, options, numberOfPlayers>>
gameVars == <<rollGenerator, highRollers, highRollsParity, points, publicRolls,
              privateRolls, lastPrivateRolls, heap>>
tttVars == <<xBoard, yBoard, asgMoves, playerToPlay, turnEvents>>
vars == <<updates, pendingMoves, options, numberOfPlayers, rollGenerator, highRollers,
          highRollsParity, points, publicRolls, privateRolls, lastPrivateRolls, heap,
          xBoard, yBoard, asgMoves, playerToPlay, turnEvents, returned, last>>

----------------------------------------------------------------------------
(* Bounds of the model *)

MaxPlayers == 2
MaxPoints == 2
MaxMoves == 4

(* Program constants *)

DefaultNumPoints == 10
GeneratorModulus == 127
GeneratorMultiplier == 8191
DieSides == 6

----------------------------------------------------------------------------
(* Values *)

None == <<>>
Some(v) == <<v>>
Undefined == "undefined"
NullRef == "null"
PubArr == "publicRollsArray"
PrivArr == "privateRollsArray"

At(arr, i) == arr[i + 1]

\* arr[i] read where i may be no index of arr: None is JavaScript's undefined
ArrayGet(arr, i) == IF i + 1 \in 1..Len(arr) THEN Some(arr[i + 1]) ELSE None

\* arr[i] = v on a JavaScript array whose length is at least i
ArraySet(arr, i, v) ==
    IF i + 1 <= Len(arr) THEN [arr EXCEPT ![i + 1] = v] ELSE Append(arr, v)

ToSet(arr) == {arr[k] : k \in 1..Len(arr)}

\* Players a caller may name: the spectator sentinel -1 and the ids below MaxPlayers
\* (an id too large for the games of fewer players)
Players == -1..(MaxPlayers - 1)

\* Seeds as sequences of character codes; TestSeed is "test_seed". "?@" has the
\* residue of "" modulo 127 (63 + 64 = 127) and "G" that of "test_seed" (960 % 127 = 71)
TestSeed == <<116, 101, 115, 116, 95, 115, 101, 101, 100>>
Seeds == {<<>>, TestSeed, <<63, 64>>, <<71>>}

\* Raw moves a caller may pass: objects with a guess and, possibly, a gamble field
RawMoves ==
    { [guess |-> "even", gamble |-> "absent"],
      [guess |-> "odd", gamble |-> "absent"],
      [guess |-> "even", gamble |-> "true"],
      [guess |-> "odd", gamble |-> "true"],
      [guess |-> "odd", gamble |-> "false"],
      [guess |-> "neither", gamble |-> "true"] }

Truthy(g) == g = "true"

\* A JavaScript value where the source does not know its type: its typeof, whether it
\* is NaN, and, for a number that is not NaN, twice its value (so that 0.5 is a value)
JsNumber(halves) == [type |-> "number", nan |-> FALSE, halves |-> halves]
NaN == [type |-> "number", nan |-> TRUE, halves |-> 0]
JsString == [type |-> "string", nan |-> FALSE, halves |-> 0]
\* undefined: a value that converts to the number NaN
JsUndefined == [type |-> "undefined", nan |-> TRUE, halves |-> 0]

\* Math.floor
Floor(m) == IF m.nan THEN m ELSE [m EXCEPT !.halves = 2 * (@ \div 2)]

\* a < b and a >= b on numbers: both are false when an operand is NaN
JsLess(a, b) == ~a.nan /\ ~b.nan /\ a.halves < b.halves
JsAtLeast(a, b) == ~a.nan /\ ~b.nan /\ a.halves >= b.halves

\* The whole number n as a JavaScript value, and back
FromWhole(n) == JsNumber(2 * n)
ToWhole(m) == m.halves \div 2

----------------------------------------------------------------------------
(* src/errors.ts: an error is its class and the constructor's arguments, in *)
(* the order of the constructor's parameters.                               *)

InvalidOptionsError(opts, reason) ==
    [kind |-> "InvalidOptionsError", options |-> opts, reason |-> reason]

InvalidMoveError(move, reason) ==
    [kind |-> "InvalidMoveError", move |-> move, reason |-> reason]

IllegalMoveError(move, player, reason) ==
    [kind |-> "IllegalMoveError", move |-> move, player |-> player, reason |-> reason]

OutOfTurnError(move, player, reason) ==
    [kind |-> "OutOfTurnError", move |-> move, player |-> player, reason |-> reason]

\* new Error(message)
PlainError(message) == [kind |-> "Error", message |-> message]

\* The texts interpolated as such into an OutOfTurnError's message
\* (`... by player ${player}: ${reason}`)
OutOfTurnText(err) == {err.player, err.reason}

----------------------------------------------------------------------------
(* SimpleGame *)

\* The reason of the InvalidOptionsError sanitizeOptions throws, if it throws
\* (lines 96-100); a missing field is undefined
SanitizeOptionsFails(raw) ==
    IF raw.numPlayers.type # "number"
    THEN Some("options must specify the number of players")
    ELSE IF JsLess(raw.numPlayers, FromWhole(1))
    THEN Some("number of players must be at least 1")
    ELSE None

\* sanitizeOptions, where it returns (lines 101-106)
sanitizeOptions(raw) ==
    [numPlayers |-> Floor(raw.numPlayers),
     numPoints |-> IF raw.numPoints.type = "number" /\ JsAtLeast(raw.numPoints, FromWhole(1))
                   THEN raw.numPoints
                   ELSE FromWhole(DefaultNumPoints)]

\* Options whose fields are whole numbers, as JavaScript values and back
JsOptions(opts) ==
    [numPlayers |-> FromWhole(opts.numPlayers), numPoints |-> FromWhole(opts.numPoints)]
WholeOptions(opts) ==
    [numPlayers |-> ToWhole(opts.numPlayers), numPoints |-> ToWhole(opts.numPoints)]

numberOfPlayersForOptions(opts) == opts.numPlayers

RECURSIVE SumCodes(_)
SumCodes(seed) == IF seed = <<>> THEN 0 ELSE Head(seed) + SumCodes(Tail(seed))

\* initialize, lines 79-84
\* Faulty variant: the generator starts from the sum of the codes, each weighted by
\* its position
RECURSIVE WeightedSumCodes(_)
WeightedSumCodes(seed) ==
    IF seed = <<>> THEN 0 ELSE Len(seed) * Head(seed) + WeightedSumCodes(Tail(seed))
SeedGeneratorWeighted(seed) == WeightedSumCodes(seed) % GeneratorModulus

SeedGenerator(seed) == SumCodes(seed) % GeneratorModulus

\* Faulty variant: the generator is reduced modulo 128
getNextDiceRollModulus128(gen) ==
    LET g == (gen * GeneratorMultiplier) % (GeneratorModulus + 1)
    IN  [gen |-> g, roll |-> 1 + (g % DieSides)]

\* Faulty variant: a roll from 0 to 5
getNextDiceRollNoOffset(gen) ==
    LET g == (gen * GeneratorMultiplier) % GeneratorModulus
    IN  [gen |-> g, roll |-> g % DieSides]

\* getNextDiceRoll: the new generator and the roll
getNextDiceRoll(gen) ==
    LET g == (gen * GeneratorMultiplier) % GeneratorModulus
    IN  [gen |-> g, roll |-> 1 + (g % DieSides)]

\* the body of rollAllDice's loop for player i
RollOne(i, acc) ==
    LET a == getNextDiceRoll(acc.gen)
        b == getNextDiceRoll(a.gen)
        higher == b.roll > acc.highest
        hi == IF higher THEN b.roll ELSE acc.highest
        hr == IF higher THEN <<>> ELSE acc.highRollers
    IN  [gen |-> b.gen,
         priv |-> ArraySet(acc.priv, i, a.roll),
         pub |-> ArraySet(acc.pub, i, b.roll),
         highest |-> hi,
         highRollers |-> IF b.roll = hi THEN Append(hr, i) ELSE hr]

RECURSIVE RollLoop(_, _, _)
RollLoop(i, n, acc) == IF i >= n THEN acc ELSE RollLoop(i + 1, n, RollOne(i, acc))

RECURSIVE SumAt(_, _)
SumAt(arr, ps) == IF ps = <<>> THEN 0 ELSE At(arr, Head(ps)) + SumAt(arr, Tail(ps))

\* rollAllDice: writes into the arrays priv and pub, returns the game's new fields
rollAllDice(gen, n, priv, pub) ==
    LET r == RollLoop(0, n, [gen |-> gen, priv |-> priv, pub |-> pub,
                             highest |-> 0, highRollers |-> <<>>])
    IN  [gen |-> r.gen, priv |-> r.priv, pub |-> r.pub, highRollers |-> r.highRollers,
         parity |-> IF SumAt(r.priv, r.highRollers) % 2 = 0 THEN "even" ELSE "odd"]

\* sanitizeMove: the sanitized move, or the error thrown. A sanitized move has a gamble
\* field (true) only for a truthy gamble: gamble FALSE stands for the absent field
SanitizeFails(move) == move.guess # "even" /\ move.guess # "odd"
sanitizeMove(move) == [guess |-> move.guess, gamble |-> Truthy(move.gamble)]

\* Faulty variant: every gamble is illegal
MoveIsIllegalAnyGamble(move, player) == move.gamble

\* assertMoveIsLegal: whether it throws
MoveIsIllegal(move, player) ==
    ArrayGet(heap[publicRolls], player) # ArrayGet(heap[privateRolls], player) /\ move.gamble

GambleReason == "Can only call a gamble if the public roll matches the private roll"

\* getWinners over a points array
\* Faulty variant: only the first player that has reached numPoints wins
getWinnersOfFirst(pts, opts) ==
    LET all == SelectSeq([k \in 1..Len(pts) |-> k - 1], LAMBDA p : At(pts, p) >= opts.numPoints)
    IN  IF all = <<>> THEN <<>> ELSE <<Head(all)>>

getWinnersOf(pts, opts) ==
    SelectSeq([k \in 1..Len(pts) |-> k - 1], LAMBDA p : At(pts, p) >= opts.numPoints)

getWinners == getWinnersOf(points, options)

\* processTurn, lines 138-145: the callback applied to one entry of the map
\* (an assignment to points[player] for a player that is no index of points leaves
\* the elements of points as they are)
\* Faulty variant: a guess scores whether it is right or not
ScoreMoveAnyGuess(pts, player, move, parity) ==
    LET p1 == IF move.gamble THEN ArraySet(pts, player, At(pts, player) - 1) ELSE pts
    IN  IF player + 1 \notin 1..Len(pts) THEN pts
        ELSE ArraySet(p1, player, At(p1, player) + (IF move.gamble THEN 4 ELSE 1))

ScoreMove(pts, player, move, parity) ==
    LET p1 == IF move.gamble THEN ArraySet(pts, player, At(pts, player) - 1) ELSE pts
    IN  IF player + 1 \notin 1..Len(pts) THEN pts
        ELSE IF move.guess = parity
        THEN ArraySet(p1, player, At(p1, player) + (IF move.gamble THEN 4 ELSE 1))
        ELSE p1

RECURSIVE ScoreMoves(_, _, _)
ScoreMoves(moves, pts, parity) ==
    IF moves = <<>> THEN pts
    ELSE ScoreMoves(Tail(moves),
                    ScoreMove(pts, Head(moves).player, Head(moves).move, parity), parity)

\* Map.get
MapHas(moves, p) == \E k \in 1..Len(moves) : moves[k].player = p
MapGet(moves, p) == moves[CHOOSE k \in 1..Len(moves) : moves[k].player = p].move
MapKeys(moves) == {moves[k].player : k \in 1..Len(moves)}

\* Faulty variant: the calls in the order of submission instead of indexed by player
CallsOfInsertionOrder(moves, n) ==
    [k \in 1..n |-> IF k <= Len(moves) THEN Some(moves[k].move) ELSE None]

\* processTurn, lines 159-163
CallsOf(moves, n) ==
    [k \in 1..n |-> IF MapHas(moves, k - 1) THEN Some(MapGet(moves, k - 1)) ELSE None]

\* currentUpdate: publicRolls is stored as the reference it is, privateInfo and
\* lastPrivateRolls are fresh arrays
currentUpdate(calls, pubRef, privRef, hp, lastPriv, hr) ==
    [publicInfo |-> [calls |-> calls, publicRolls |-> pubRef, lastPrivateRolls |-> lastPriv],
     toPlay |-> hr,
     winners |-> None,
     privateInfo |-> IF privRef = NullRef THEN None
                     ELSE Some([k \in 1..Len(hp[privRef]) |-> [privateRoll |-> hp[privRef][k]]])]

\* processTurn: the game's new fields and the update it returns
processTurn(moves) ==
    LET pts == ScoreMoves(moves, points, highRollsParity)
        lastPriv == Some(heap[privateRolls])
        over == Len(getWinnersOf(pts, options)) # 0
        r == rollAllDice(rollGenerator, options.numPlayers, heap[privateRolls], heap[publicRolls])
        hp == IF over THEN heap
              ELSE [heap EXCEPT ![privateRolls] = r.priv, ![publicRolls] = r.pub]
        pubRef == IF over THEN NullRef ELSE publicRolls
        privRef == IF over THEN NullRef ELSE privateRolls
        hr == IF over THEN <<>> ELSE r.highRollers
    IN  [points |-> pts,
         lastPrivateRolls |-> lastPriv,
         rollGenerator |-> IF over THEN rollGenerator ELSE r.gen,
         heap |-> hp,
         publicRolls |-> pubRef,
         privateRolls |-> privRef,
         highRollers |-> hr,
         highRollsParity |-> IF over THEN highRollsParity ELSE r.parity,
         update |-> currentUpdate(Some(CallsOf(moves, options.numPlayers)),
                                  pubRef, privRef, hp, lastPriv, hr)]

\* initialize
initialize(seed) ==
    LET r == rollAllDice(SeedGenerator(seed), options.numPlayers,
                         heap[privateRolls], heap[publicRolls])
        hp == [heap EXCEPT ![privateRolls] = r.priv, ![publicRolls] = r.pub]
    IN  [rollGenerator |-> r.gen,
         heap |-> hp,
         highRollers |-> r.highRollers,
         highRollsParity |-> r.parity,
         update |-> currentUpdate(None, publicRolls, privateRolls, hp,
                                  lastPrivateRolls, r.highRollers)]

----------------------------------------------------------------------------
(* Game *)

getAllUpdates == updates

getLatestUpdate == updates[Len(updates)]

getPlayersToPlay == IF Len(updates) # 0 THEN ToSet(getLatestUpdate.toPlay) ELSE {}

\* What a caller reads through an update: the update with its references followed, in
\* the heap hp
ReadUpdate(update, hp) ==
    [update EXCEPT !.publicInfo.publicRolls = IF @ = NullRef THEN None ELSE Some(hp[@])]

\* Faulty variant: the winners are never attached
AttachWinnersNever(update, winners) == update

\* Faulty variant: the winners are attached to every update
AttachWinnersAlways(update, winners) == [update EXCEPT !.winners = Some(winners)]

\* `if (update.toPlay.length == 0) update.winners = this.getWinners()`
AttachWinners(update, winners) ==
    IF Len(update.toPlay) = 0 THEN [update EXCEPT !.winners = Some(winners)] ELSE update

\* Faulty variant: unshift instead of push
PushUpdateFront(us, update) == <<update>> \o us

\* this.updates.push(update)
PushUpdate(us, update) == Append(us, update)

\* this.pendingMoves.set(player, sanitizedMove)
MapSet(moves, player, move) ==
    IF MapHas(moves, player)
    THEN [k \in 1..Len(moves) |->
            IF moves[k].player = player THEN [moves[k] EXCEPT !.move = move] ELSE moves[k]]
    ELSE Append(moves, [player |-> player, move |-> move, turn |-> Len(updates)])

\* Faulty variant: the pending moves are kept when a turn resolves
KeptMoves(moves) == moves

\* this.pendingMoves = new Map()
ClearedMoves(moves) == <<>>

\* Faulty variant: the turn is taken to be complete when every player of the game has submitted
TurnIsCompleteAllPlayers(moves) == numberOfPlayers = Len(moves)

\* Faulty variant: a turn is never taken to be complete
TurnIsCompleteNever(moves) == FALSE

\* `this.getPlayersToPlay().size == this.pendingMoves.size`
TurnIsComplete(moves) == Cardinality(getPlayersToPlay) = Len(moves)

\* Faulty variant: playMove without its check that the player has not played yet
TurnCheckNoDuplicateCheck(player) ==
    IF Len(updates) = 0 THEN Some("The game hasn't started yet")
    ELSE IF Cardinality(getPlayersToPlay) = 0 THEN Some("The game is already over")
    ELSE IF player \notin getPlayersToPlay
         THEN Some("No legal moves this turn for this player")
    ELSE None

\* Faulty variant: playMove without its check that the player is to play this turn
TurnCheckNoMembershipCheck(player) ==
    IF Len(updates) = 0 THEN Some("The game hasn't started yet")
    ELSE IF Cardinality(getPlayersToPlay) = 0 THEN Some("The game is already over")
    ELSE IF MapHas(pendingMoves, player) THEN Some("Player has already played this turn")
    ELSE None

\* Faulty variant: playMove without its check that the game is not over
TurnCheckNoOverCheck(player) ==
    IF Len(updates) = 0 THEN Some("The game hasn't started yet")
    ELSE IF player \notin getPlayersToPlay
         THEN Some("No legal moves this turn for this player")
    ELSE IF MapHas(pendingMoves, player) THEN Some("Player has already played this turn")
    ELSE None

\* Faulty variant: playMove without its check that the game has started
TurnCheckNoStartedCheck(player) ==
    IF Cardinality(getPlayersToPlay) = 0 THEN Some("The game is already over")
    ELSE IF player \notin getPlayersToPlay
         THEN Some("No legal moves this turn for this player")
    ELSE IF MapHas(pendingMoves, player) THEN Some("Player has already played this turn")
    ELSE None

\* The check, if any, of playMove's lines 61-71 that rejects the call
TurnCheck(player) ==
    IF Len(updates) = 0 THEN Some("The game hasn't started yet")
    ELSE IF Cardinality(getPlayersToPlay) = 0 THEN Some("The game is already over")
    ELSE IF player \notin getPlayersToPlay
         THEN Some("No legal moves this turn for this player")
    ELSE IF MapHas(pendingMoves, player) THEN Some("Player has already played this turn")
    ELSE None

\* Faulty variant: playMove sanitizes the move before it checks the turn
ValidateSanitizeFirst(move, player) ==
    IF SanitizeFails(move)
    THEN [error |-> Some(InvalidMoveError(move, "move does not contain an even/odd guess")),
          hooks |-> <<"sanitizeMove">>]
    ELSE IF TurnCheck(player) # None
    THEN [error |-> Some(OutOfTurnError(player, TurnCheck(player)[1], Undefined)),
          hooks |-> <<"sanitizeMove">>]
    ELSE IF MoveIsIllegal(sanitizeMove(move), player)
    THEN [error |-> Some(IllegalMoveError(sanitizeMove(move), player, GambleReason)),
          hooks |-> <<"sanitizeMove", "assertMoveIsLegal">>]
    ELSE [error |-> None, hooks |-> <<"sanitizeMove", "assertMoveIsLegal">>]

\* Faulty variant: playMove without its call of assertMoveIsLegal
ValidateNoLegalCheck(move, player) ==
    IF TurnCheck(player) # None
    THEN [error |-> Some(OutOfTurnError(player, TurnCheck(player)[1], Undefined)),
          hooks |-> <<>>]
    ELSE IF SanitizeFails(move)
    THEN [error |-> Some(InvalidMoveError(move, "move does not contain an even/odd guess")),
          hooks |-> <<"sanitizeMove">>]
    ELSE [error |-> None, hooks |-> <<"sanitizeMove">>]

\* What playMove(move, player) does before it touches the state: the error it throws,
\* if any, and the hooks of the game it has invoked
Validate(move, player) ==
    IF TurnCheck(player) # None
    THEN [error |-> Some(OutOfTurnError(player, TurnCheck(player)[1], Undefined)),
          hooks |-> <<>>]
    ELSE IF SanitizeFails(move)
    THEN [error |-> Some(InvalidMoveError(move, "move does not contain an even/odd guess")),
          hooks |-> <<"sanitizeMove">>]
    ELSE IF MoveIsIllegal(sanitizeMove(move), player)
    THEN [error |-> Some(IllegalMoveError(sanitizeMove(move), player, GambleReason)),
          hooks |-> <<"sanitizeMove", "assertMoveIsLegal">>]
    ELSE [error |-> None, hooks |-> <<"sanitizeMove", "assertMoveIsLegal">>]

\* A value of last: the call, the error it threw or the value it returned, the hooks of
\* the game it invoked, in order, and the map it passed to processTurn
Call(op, move, player, error, ret, hooks, turnMoves) ==
    [op |-> op, move |-> move, player |-> player, error |-> error, returned |-> ret,
     hooks |-> hooks, turnMoves |-> turnMoves]

\* An entry of returned: the hook that returned the update, and the update
Returned(by, update) == [by |-> by, update |-> update]

\* The number of moves accepted so far: those the resolved turns were given and the
\* pending ones
RECURSIVE CountCalls(_)
CountCalls(us) ==
    IF us = <<>> THEN 0
    ELSE CountCalls(Tail(us))
         + (IF Head(us).publicInfo.calls = None THEN 0
            ELSE Len(SelectSeq(Head(us).publicInfo.calls[1], LAMBDA c : c # None)))

AcceptedMoves == CountCalls(updates) + Len(pendingMoves)

----------------------------------------------------------------------------
(* The state after `new SimpleGame(options)` *)

RawOptions == [numPlayers : 1..MaxPlayers, numPoints : 1..MaxPoints]

\* The state after `new SimpleGame(raw)` for options of whole numbers
InitFor(raw) ==
    /\ SanitizeOptionsFails(JsOptions(raw)) = None
    /\ options = WholeOptions(sanitizeOptions(JsOptions(raw)))
    /\ numberOfPlayers = numberOfPlayersForOptions(raw)
    /\ points = [k \in 1..WholeOptions(sanitizeOptions(JsOptions(raw))).numPlayers |-> 0]
    /\ updates = <<>>
    /\ pendingMoves = <<>>
    /\ rollGenerator = 0
    /\ highRollers = <<>>
    /\ highRollsParity = Undefined
    /\ publicRolls = PubArr
    /\ privateRolls = PrivArr
    /\ lastPrivateRolls = None
    /\ heap = [a \in {PubArr, PrivArr} |-> <<>>]
    /\ returned = <<>>
    /\ xBoard = 0
    /\ yBoard = 0
    /\ asgMoves = <<>>
    /\ playerToPlay = -1
    /\ turnEvents = <<>>
    /\ last = Call("new", None, None, None, None, <<>>, None)

Init == \E raw \in RawOptions : InitFor(raw)

\* Faulty variant: start without its check that the history is empty
StartNoCheck(seed) ==
    \E g \in {initialize(seed)} :
    \E update \in {AttachWinners(g.update, getWinners)} :
        /\ rollGenerator' = g.rollGenerator
        /\ heap' = g.heap
        /\ highRollers' = g.highRollers
        /\ highRollsParity' = g.highRollsParity
        /\ updates' = PushUpdate(updates, update)
        /\ returned' = Append(returned, Returned("initialize", update))
        /\ last' = Call("start", None, None, None, None, <<"initialize">>, None)
        /\ UNCHANGED <<tttVars, pendingMoves, options, numberOfPlayers, points, publicRolls,
                       privateRolls, lastPrivateRolls>>

\* start(seed)
Start(seed) ==
    IF Len(updates) > 0
    THEN /\ last' = Call("start", None, None,
                         Some(PlainError("A game can only be started once")), None, <<>>, None)
         /\ UNCHANGED <<tttVars, engineVars, gameVars, returned>>
    ELSE \E g \in {initialize(seed)} :
         LET over == Len(g.update.toPlay) = 0
             update == AttachWinners(g.update, getWinners)
         IN  /\ rollGenerator' = g.rollGenerator
             /\ heap' = g.heap
             /\ highRollers' = g.highRollers
             /\ highRollsParity' = g.highRollsParity
             /\ updates' = PushUpdate(updates, update)
             /\ returned' = Append(returned, Returned("initialize", update))
             /\ last' = Call("start", None, None, None, None,
                             IF over THEN <<"initialize", "getWinners">> ELSE <<"initialize">>,
                             None)
             /\ UNCHANGED <<tttVars, pendingMoves, options, numberOfPlayers, points,
                            publicRolls, privateRolls, lastPrivateRolls>>

\* playMove(move, player)
playMove(move, player) ==
    \E v \in {Validate(move, player)} :
    \E moves \in {MapSet(pendingMoves, player, sanitizeMove(move))} :
        IF v.error # None
        THEN /\ last' = Call("playMove", Some(move), Some(player), v.error, None, v.hooks, None)
             /\ UNCHANGED <<tttVars, engineVars, gameVars, returned>>
        ELSE IF TurnIsComplete(moves)
        THEN \E g \in {processTurn(moves)} :
             \E update \in {AttachWinners(g.update, getWinnersOf(g.points, options))} :
             LET over == Len(g.update.toPlay) = 0
             IN  /\ points' = g.points
                 /\ lastPrivateRolls' = g.lastPrivateRolls
                 /\ rollGenerator' = g.rollGenerator
                 /\ heap' = g.heap
                 /\ publicRolls' = g.publicRolls
                 /\ privateRolls' = g.privateRolls
                 /\ highRollers' = g.highRollers
                 /\ highRollsParity' = g.highRollsParity
                 /\ updates' = PushUpdate(updates, update)
                 /\ pendingMoves' = ClearedMoves(moves)
                 /\ returned' = Append(returned, Returned("processTurn", update))
                 /\ last' = Call("playMove", Some(move), Some(player), None, Some(TRUE),
                                 v.hooks \o (IF over THEN <<"processTurn", "getWinners">>
                                             ELSE <<"processTurn">>),
                                 Some(moves))
                 /\ UNCHANGED <<tttVars, options, numberOfPlayers>>
        ELSE /\ pendingMoves' = moves
             /\ last' = Call("playMove", Some(move), Some(player), None, Some(FALSE),
                             v.hooks, None)
             /\ UNCHANGED <<tttVars, updates, options, numberOfPlayers, gameVars, returned>>

\* playMove(move, player), as long as fewer than MaxMoves moves have been accepted
PlayMove(move, player) ==
    /\ Validate(move, player).error = None => AcceptedMoves < MaxMoves
    /\ playMove(move, player)

Next ==
    \/ \E seed \in Seeds : Start(seed)
    \/ \E move \in RawMoves, player \in Players : PlayMove(move, player)

Spec == Init /\ [][Next]_vars

\* Faulty variant: getPlayersToPlay drops the moves submitted so far
GetPlayersToPlayClearsMoves ==
    /\ last' = Call("getPlayersToPlay", None, None, None, Some(getPlayersToPlay), <<>>, None)
    /\ pendingMoves' = <<>>
    /\ UNCHANGED <<tttVars, updates, options, numberOfPlayers, gameVars, returned>>

\* getPlayersToPlay()
GetPlayersToPlay ==
    /\ last' = Call("getPlayersToPlay", None, None, None, Some(getPlayersToPlay), <<>>, None)
    /\ UNCHANGED <<tttVars, engineVars, gameVars, returned>>

\* Faulty variant: getLatestUpdate returns the first update
GetLatestUpdateFirst ==
    /\ last' = IF Len(updates) = 0
               THEN Call("getLatestUpdate", None, None,
                         Some(PlainError("Game hasn't started yet")), None, <<>>, None)
               ELSE Call("getLatestUpdate", None, None, None, Some(updates[1]), <<>>, None)
    /\ UNCHANGED <<tttVars, engineVars, gameVars, returned>>

\* getLatestUpdate()
GetLatestUpdate ==
    /\ last' = IF Len(updates) = 0
               THEN Call("getLatestUpdate", None, None,
                         Some(PlainError("Game hasn't started yet")), None, <<>>, None)
               ELSE Call("getLatestUpdate", None, None, None, Some(getLatestUpdate), <<>>, None)
    /\ UNCHANGED <<tttVars, engineVars, gameVars, returned>>

\* getAllUpdates()
GetAllUpdates ==
    /\ last' = Call("getAllUpdates", None, None, None, Some(getAllUpdates), <<>>, None)
    /\ UNCHANGED <<tttVars, engineVars, gameVars, returned>>

\* The operations of Spec and the three accessors
QueryNext ==
    \/ \E seed \in Seeds : Start(seed)
    \/ \E move \in RawMoves, player \in Players : PlayMove(move, player)
    \/ GetPlayersToPlay
    \/ GetLatestUpdate
    \/ GetAllUpdates

QuerySpec == Init /\ [][QueryNext]_vars

\* A caller empties the toPlay array of the update getLatestUpdate has just returned:
\* `game.getLatestUpdate().toPlay.length = 0`. The object returned is the element of
\* this.updates itself (src/game.ts, line 101) and its toPlay is the array
\* this.highRollers itself (currentUpdate, line 190), so both read as empty afterwards.
CallerEmptiesToPlay ==
    /\ last.op = "getLatestUpdate"
    /\ last.error = None
    /\ updates' = [updates EXCEPT ![Len(updates)].toPlay = <<>>]
    /\ highRollers' = <<>>
    /\ last' = Call("toPlay.length = 0", None, None, None, None, <<>>, None)
    /\ UNCHANGED <<tttVars, pendingMoves, options, numberOfPlayers, rollGenerator,
                   highRollsParity, points, publicRolls, privateRolls, lastPrivateRolls,
                   heap, returned>>

\* The operations of Spec, getLatestUpdate and a caller that writes to what it returned
CallerNext ==
    \/ \E seed \in Seeds : Start(seed)
    \/ \E move \in RawMoves, player \in Players : PlayMove(move, player)
    \/ GetLatestUpdate
    \/ CallerEmptiesToPlay

CallerSpec == Init /\ [][CallerNext]_vars

----------------------------------------------------------------------------
(* The full game of the SimpleGame test (src/unnamed/part_000, lines 8-93): *)
(* three players, five points, seed "test_seed", and the test's playMove    *)
(* calls in the test's order. Between two calls of the test a caller may    *)
(* make any call that fails.                                                *)

ScenarioOptions == [numPlayers |-> 3, numPoints |-> 5]

Guess(parity) == [guess |-> parity, gamble |-> "absent"]

Submission(move, player) == [move |-> move, player |-> player]

\* The playMove calls of the test, lines 23-83
ScenarioMoves ==
    << Submission(Guess("even"), 0),
       Submission(Guess("odd"), 0),
       Submission(Guess("even"), 0), Submission(Guess("even"), 1),
       Submission(Guess("odd"), 0), Submission(Guess("even"), 1),
       Submission(Guess("odd"), 1), Submission(Guess("even"), 2),
       Submission(Guess("odd"), 1), Submission(Guess("even"), 2),
       Submission(Guess("even"), 2),
       Submission(Guess("odd"), 0),
       Submission(Guess("odd"), 0) >>

ScenarioInit == InitFor(ScenarioOptions)

\* game.start("test_seed"), line 16
ScenarioStart == Start(TestSeed)

\* The next playMove of the test: the one after those accepted so far
ScenarioPlayMove ==
    /\ Len(updates) > 0
    /\ AcceptedMoves < Len(ScenarioMoves)
    /\ playMove(ScenarioMoves[AcceptedMoves + 1].move, ScenarioMoves[AcceptedMoves + 1].player)

\* A playMove that throws
FailingPlayMove ==
    \E move \in RawMoves, player \in Players :
        /\ Validate(move, player).error # None
        /\ playMove(move, player)

ScenarioNext ==
    \/ ScenarioStart
    \/ ScenarioPlayMove
    \/ FailingPlayMove

ScenarioSpec == ScenarioInit /\ [][ScenarioNext]_vars

----------------------------------------------------------------------------
(* `new SimpleGame(options)` on options of any shape: the Game constructor  *)
(* (src/game.ts, lines 37-41) followed by the SimpleGame constructor        *)
(* (src/test/simple_game.ts, lines 63-75). options, numberOfPlayers and     *)
(* points are the fields of the instance created last (a constructor that  *)
(* throws creates none); the numbers among them are JavaScript values.      *)

\* The values a caller may give a field of the options: the numbers from -1 up to half
\* a player more than MaxPlayers in steps of 0.5, NaN, a string, and no value at all
OptionValues ==
    {JsNumber(h) : h \in (-2)..(2 * MaxPlayers + 1)} \cup {NaN, JsString, JsUndefined}

AnyOptions == [numPlayers : OptionValues, numPoints : OptionValues]

\* The number of times the body of `for (i = 0; i < n; ++i)` runs, for n that is NaN
\* or at most MaxPlayers + 1
LoopCount(n) == IF n.nan THEN 0 ELSE Cardinality({i \in 0..(MaxPlayers + 1) : 2 * i < n.halves})

\* The state after a first `new SimpleGame(raw)` that has not thrown
OptionsInit ==
    /\ \E raw \in AnyOptions :
        /\ SanitizeOptionsFails(raw) = None
        /\ options = sanitizeOptions(raw)
        /\ numberOfPlayers = numberOfPlayersForOptions(raw)
        /\ points = [k \in 1..LoopCount(sanitizeOptions(raw).numPlayers) |-> 0]
        /\ last = Call("new", Some(raw), None, None, None,
                       <<"sanitizeOptions", "numberOfPlayersForOptions">>, None)
    /\ updates = <<>>
    /\ pendingMoves = <<>>
    /\ rollGenerator = 0
    /\ highRollers = <<>>
    /\ highRollsParity = Undefined
    /\ publicRolls = PubArr
    /\ privateRolls = PrivArr
    /\ lastPrivateRolls = None
    /\ heap = [a \in {PubArr, PrivArr} |-> <<>>]
    /\ returned = <<>>
    /\ xBoard = 0
    /\ yBoard = 0
    /\ asgMoves = <<>>
    /\ playerToPlay = -1
    /\ turnEvents = <<>>

\* new SimpleGame(raw)
NewSimpleGame(raw) ==
    IF SanitizeOptionsFails(raw) # None
    THEN /\ last' = Call("new", Some(raw), None,
                         Some(InvalidOptionsError(raw, SanitizeOptionsFails(raw)[1])), None,
                         <<"sanitizeOptions">>, None)
         /\ UNCHANGED <<tttVars, engineVars, gameVars, returned>>
    ELSE /\ options' = sanitizeOptions(raw)
         /\ numberOfPlayers' = numberOfPlayersForOptions(raw)
         /\ points' = [k \in 1..LoopCount(sanitizeOptions(raw).numPlayers) |-> 0]
         /\ last' = Call("new", Some(raw), None, None, None,
                         <<"sanitizeOptions", "numberOfPlayersForOptions">>, None)
         /\ UNCHANGED <<tttVars, updates, pendingMoves, rollGenerator, highRollers,
                        highRollsParity, publicRolls, privateRolls, lastPrivateRolls, heap,
                        returned>>

OptionsNext == \E raw \in AnyOptions : NewSimpleGame(raw)

OptionsSpec == OptionsInit /\ [][OptionsNext]_vars

----------------------------------------------------------------------------
(* Game with its hooks left abstract (src/game.ts, lines 114-136): a hook   *)
(* returns, or throws, whatever a subclass may make it return or throw.     *)
(* The fields of SimpleGame play no part and keep their initial values.     *)

MaxTurns == 2

\* What initialize and processTurn may return as toPlay: nobody, player 0, players 0
\* and 1, ...
HookToPlay == {[k \in 1..n |-> k - 1] : n \in 0..MaxPlayers}

\* What getWinners may return
HookWinners == {<<>>, <<0>>}

\* The moves a caller may pass
HookMoves == {"a", "b"}

\* What sanitizeMove and assertMoveIsLegal may do
HookOutcomes == {"returns", "throws"}

HookUpdate(info, toPlay) ==
    [publicInfo |-> info, toPlay |-> toPlay, winners |-> None, privateInfo |-> None]

\* The state after `new G(options)` for a subclass G of Game
HookInit ==
    /\ options = None
    /\ numberOfPlayers = MaxPlayers
    /\ updates = <<>>
    /\ pendingMoves = <<>>
    /\ rollGenerator = 0
    /\ highRollers = <<>>
    /\ highRollsParity = Undefined
    /\ points = <<>>
    /\ publicRolls = PubArr
    /\ privateRolls = PrivArr
    /\ lastPrivateRolls = None
    /\ heap = [a \in {PubArr, PrivArr} |-> <<>>]
    /\ returned = <<>>
    /\ xBoard = 0
    /\ yBoard = 0
    /\ asgMoves = <<>>
    /\ playerToPlay = -1
    /\ turnEvents = <<>>
    /\ last = Call("new", None, None, None, None, <<>>, None)

\* start(seed) where initialize returns an update of toPlay and getWinners, if it is
\* called, returns winners
HookStart(toPlay, winners) ==
    IF Len(updates) > 0
    THEN /\ last' = Call("start", None, None,
                         Some(PlainError("A game can only be started once")), None, <<>>, None)
         /\ UNCHANGED <<tttVars, engineVars, gameVars, returned>>
    ELSE LET over == Len(toPlay) = 0
             update == AttachWinners(HookUpdate("setup", toPlay), winners)
         IN  /\ updates' = PushUpdate(updates, update)
             /\ returned' = returned \o <<Returned("initialize", HookUpdate("setup", toPlay))>>
                                      \o (IF over THEN <<Returned("getWinners", winners)>>
                                          ELSE <<>>)
             /\ last' = Call("start", None, None, None, None,
                             IF over THEN <<"initialize", "getWinners">> ELSE <<"initialize">>,
                             None)
             /\ UNCHANGED <<tttVars, pendingMoves, options, numberOfPlayers, gameVars>>

\* playMove(move, player) where sanitizeMove and assertMoveIsLegal do as sanitize and
\* legal say, processTurn returns an update of toPlay and getWinners returns winners
HookPlayMove(move, player, sanitize, legal, toPlay, winners) ==
    IF TurnCheck(player) # None
    THEN /\ last' = Call("playMove", Some(move), Some(player),
                         Some(OutOfTurnError(player, TurnCheck(player)[1], Undefined)),
                         None, <<>>, None)
         /\ UNCHANGED <<tttVars, engineVars, gameVars, returned>>
    ELSE IF sanitize = "throws"
    THEN /\ last' = Call("playMove", Some(move), Some(player),
                         Some(InvalidMoveError(move, "invalid")), None,
                         <<"sanitizeMove">>, None)
         /\ UNCHANGED <<tttVars, engineVars, gameVars, returned>>
    ELSE IF legal = "throws"
    THEN /\ last' = Call("playMove", Some(move), Some(player),
                         Some(IllegalMoveError(<<"sanitized", move>>, player, "illegal")), None,
                         <<"sanitizeMove", "assertMoveIsLegal">>, None)
         /\ UNCHANGED <<tttVars, engineVars, gameVars, returned>>
    ELSE IF Len(updates) > MaxTurns THEN FALSE
    ELSE LET moves == MapSet(pendingMoves, player, <<"sanitized", move>>)
             over == Len(toPlay) = 0
             update == AttachWinners(HookUpdate("turn", toPlay), winners)
         IN  IF TurnIsComplete(moves)
             THEN /\ updates' = PushUpdate(updates, update)
                  /\ pendingMoves' = ClearedMoves(moves)
                  /\ returned' = returned \o <<Returned("processTurn", HookUpdate("turn", toPlay))>>
                                           \o (IF over THEN <<Returned("getWinners", winners)>>
                                               ELSE <<>>)
                  /\ last' = Call("playMove", Some(move), Some(player), None, Some(TRUE),
                                  <<"sanitizeMove", "assertMoveIsLegal", "processTurn">>
                                      \o (IF over THEN <<"getWinners">> ELSE <<>>),
                                  Some(moves))
                  /\ UNCHANGED <<tttVars, options, numberOfPlayers, gameVars>>
             ELSE /\ pendingMoves' = moves
                  /\ last' = Call("playMove", Some(move), Some(player), None, Some(FALSE),
                                  <<"sanitizeMove", "assertMoveIsLegal">>, None)
                  /\ UNCHANGED <<tttVars, updates, options, numberOfPlayers, gameVars,
                                 returned>>

HookNext ==
    \/ \E toPlay \in HookToPlay, winners \in HookWinners : HookStart(toPlay, winners)
    \/ \E move \in HookMoves, player \in Players, sanitize \in HookOutcomes,
          legal \in HookOutcomes, toPlay \in HookToPlay, winners \in HookWinners :
            HookPlayMove(move, player, sanitize, legal, toPlay, winners)

HookSpec == HookInit /\ [][HookNext]_vars

\* The hooks of a resolution that may throw
ThrowingHooks == {"processTurn", "getWinners"}

\* playMove(move, player) where the checks pass, the move completes the turn and
\* thrower throws: processTurn itself, or getWinners after processTurn has returned
\* an update with an empty toPlay. The exception leaves playMove after
\* pendingMoves.set and before updates.push
HookPlayMoveThrows(move, player, thrower) ==
    LET moves == MapSet(pendingMoves, player, <<"sanitized", move>>)
    IN  /\ TurnCheck(player) = None
        /\ TurnIsComplete(moves)
        /\ pendingMoves' = moves
        /\ returned' = IF thrower = "getWinners"
                       THEN Append(returned, Returned("processTurn", HookUpdate("turn", <<>>)))
                       ELSE returned
        /\ last' = Call("playMove", Some(move), Some(player), Some(PlainError(thrower)), None,
                        <<"sanitizeMove", "assertMoveIsLegal", "processTurn">>
                            \o (IF thrower = "getWinners" THEN <<"getWinners">> ELSE <<>>),
                        Some(moves))
        /\ UNCHANGED <<tttVars, updates, options, numberOfPlayers, gameVars>>

HookThrowNext ==
    \/ HookNext
    \/ \E move \in HookMoves, player \in Players, thrower \in ThrowingHooks :
          HookPlayMoveThrows(move, player, thrower)

HookThrowSpec == HookInit /\ [][HookThrowNext]_vars

----------------------------------------------------------------------------
(* AlternatingTurnsGame (src/unnamed/part_005) on the Game of its revision  *)
(* (src/unnamed/part_003, lines 1-116), where getPlayersToPlay is a method  *)
(* of the game and an update has no toPlay. The hooks of the subclass are   *)
(* abstract: sanitizeMove and processMove are uninterpreted (their result   *)
(* is tagged with their argument), and initialize and processMove leave the *)
(* game in a state where getPlayerToPlay returns any player or -1.          *)

\* What getPlayerToPlay may return: a player, or -1 when the game is over
AtgPlayers == -1..(MaxPlayers - 1)

getPlayerToPlay == playerToPlay

\* Faulty variant: -1 is taken for a player
AtgGetPlayersToPlayNoSentinel == {getPlayerToPlay}

\* AlternatingTurnsGame.getPlayersToPlay
AtgGetPlayersToPlay == IF getPlayerToPlay = -1 THEN {} ELSE {getPlayerToPlay}

\* An update of this revision
AtgUpdate(info) == [publicInfo |-> info, privateInfo |-> None]

\* AlternatingTurnsGame.processTurn: the update processMove returns for the move of
\* the player to play (Map.get returns undefined for a player that has no entry)
AtgProcessTurn(moves) ==
    AtgUpdate(<<"processed", IF MapHas(moves, getPlayerToPlay)
                             THEN MapGet(moves, getPlayerToPlay) ELSE Undefined>>)

\* playMove, lines 49-60: the text of the OutOfTurnError it throws, if any
AtgTurnCheck(player) ==
    IF Len(updates) = 0 THEN Some("The game hasn't started yet")
    ELSE IF Cardinality(AtgGetPlayersToPlay) = 0 THEN Some("The game is already over")
    ELSE IF player \notin AtgGetPlayersToPlay
         THEN Some("No legal moves this turn for this player")
    ELSE IF MapHas(pendingMoves, player) THEN Some("Player has already played this turn")
    ELSE None

\* The state after `new G(options)` for a subclass G of AlternatingTurnsGame
AtgInit ==
    /\ options = None
    /\ numberOfPlayers = MaxPlayers
    /\ updates = <<>>
    /\ pendingMoves = <<>>
    /\ rollGenerator = 0
    /\ highRollers = <<>>
    /\ highRollsParity = Undefined
    /\ points = <<>>
    /\ publicRolls = PubArr
    /\ privateRolls = PrivArr
    /\ lastPrivateRolls = None
    /\ heap = [a \in {PubArr, PrivArr} |-> <<>>]
    /\ returned = <<>>
    /\ xBoard = 0
    /\ yBoard = 0
    /\ asgMoves = <<>>
    /\ playerToPlay \in AtgPlayers
    /\ turnEvents = <<>>
    /\ last = Call("new", None, None, None, None, <<>>, None)

\* start(seed) where initialize leaves the game with next to play
AtgStart(next) ==
    IF Len(updates) > 0
    THEN /\ last' = Call("start", None, None,
                         Some(PlainError("A game can only be started once")), None, <<>>, None)
         /\ UNCHANGED <<tttVars, engineVars, gameVars, returned>>
    ELSE /\ updates' = PushUpdate(updates, AtgUpdate("setup"))
         /\ playerToPlay' = next
         /\ returned' = Append(returned, Returned("initialize", AtgUpdate("setup")))
         /\ last' = Call("start", None, None, None, None, <<"initialize">>, None)
         /\ UNCHANGED <<xBoard, yBoard, asgMoves, turnEvents, pendingMoves, options, numberOfPlayers,
                        gameVars>>

\* playMove(move, player) where sanitizeMove and assertMoveIsLegal do as sanitize and
\* legal say and processMove leaves the game with next to play
AtgPlayMove(move, player, sanitize, legal, next) ==
    IF AtgTurnCheck(player) # None
    THEN /\ last' = Call("playMove", Some(move), Some(player),
                         Some(OutOfTurnError(player, AtgTurnCheck(player)[1], Undefined)),
                         None, <<>>, None)
         /\ UNCHANGED <<tttVars, engineVars, gameVars, returned>>
    ELSE IF sanitize = "throws"
    THEN /\ last' = Call("playMove", Some(move), Some(player),
                         Some(InvalidMoveError(move, "invalid")), None,
                         <<"sanitizeMove">>, None)
         /\ UNCHANGED <<tttVars, engineVars, gameVars, returned>>
    ELSE IF legal = "throws"
    THEN /\ last' = Call("playMove", Some(move), Some(player),
                         Some(IllegalMoveError(<<"sanitized", move>>, player, "illegal")), None,
                         <<"sanitizeMove", "assertMoveIsLegal">>, None)
         /\ UNCHANGED <<tttVars, engineVars, gameVars, returned>>
    ELSE IF Len(updates) > MaxTurns THEN FALSE
    ELSE LET moves == MapSet(pendingMoves, player, <<"sanitized", move>>)
         IN  IF Cardinality(AtgGetPlayersToPlay) = Len(moves)
             THEN /\ updates' = PushUpdate(updates, AtgProcessTurn(moves))
                  /\ pendingMoves' = ClearedMoves(moves)
                  /\ playerToPlay' = next
                  /\ returned' = Append(returned, Returned("processMove", AtgProcessTurn(moves)))
                  /\ last' = Call("playMove", Some(move), Some(player), None, Some(TRUE),
                                  <<"sanitizeMove", "assertMoveIsLegal", "processTurn",
                                    "processMove">>,
                                  Some(moves))
                  /\ UNCHANGED <<xBoard, yBoard, asgMoves, turnEvents, options, numberOfPlayers,
                                 gameVars>>
             ELSE /\ pendingMoves' = moves
                  /\ last' = Call("playMove", Some(move), Some(player), None, Some(FALSE),
                                  <<"sanitizeMove", "assertMoveIsLegal">>, None)
                  /\ UNCHANGED <<tttVars, updates, options, numberOfPlayers, gameVars,
                                 returned>>

AtgNext ==
    \/ \E next \in AtgPlayers : AtgStart(next)
    \/ \E move \in HookMoves, player \in Players, sanitize \in HookOutcomes,
          legal \in HookOutcomes, next \in AtgPlayers :
            AtgPlayMove(move, player, sanitize, legal, next)

AtgSpec == AtgInit /\ [][AtgNext]_vars

----------------------------------------------------------------------------
(* SimpleGame in the revision with turn events (src/test/simple_game.ts,    *)
(* lines 222-483) on the Game of that revision (src/unnamed/part_003, lines *)
(* 117-198): the constructor takes the seed and rolls the first dice, there *)
(* is no start, the game keeps its own history turnEvents, and a caller     *)
(* reads it through getTurnEventsAsSeenBy and getLatestTurnEventsAsSeenBy.  *)
(* sanitizeOptions, assertMoveIsLegal and the scoring of processTurn are    *)
(* those of the current revision, line for line.                            *)

\* getNextDiceRoll of this revision: a roll from 0 to 5
EventsGetNextDiceRoll(gen) ==
    LET g == (gen * GeneratorMultiplier) % GeneratorModulus
    IN  [gen |-> g, roll |-> g % DieSides]

\* the body of rollAllDice's loop for player i
EventsRollOne(i, acc) ==
    LET a == EventsGetNextDiceRoll(acc.gen)
        b == EventsGetNextDiceRoll(a.gen)
        higher == b.roll > acc.highest
        hi == IF higher THEN b.roll ELSE acc.highest
        hr == IF higher THEN <<>> ELSE acc.highRollers
    IN  [gen |-> b.gen,
         priv |-> ArraySet(acc.priv, i, a.roll),
         pub |-> ArraySet(acc.pub, i, b.roll),
         highest |-> hi,
         highRollers |-> IF b.roll = hi THEN Append(hr, i) ELSE hr]

RECURSIVE EventsRollLoop(_, _, _)
EventsRollLoop(i, n, acc) ==
    IF i >= n THEN acc ELSE EventsRollLoop(i + 1, n, EventsRollOne(i, acc))

\* rollAllDice: writes into the arrays priv and pub, returns the game's new fields
EventsRollAllDice(gen, n, priv, pub) ==
    LET r == EventsRollLoop(0, n, [gen |-> gen, priv |-> priv, pub |-> pub,
                                   highest |-> 0, highRollers |-> <<>>])
    IN  [gen |-> r.gen, priv |-> r.priv, pub |-> r.pub, highRollers |-> r.highRollers,
         parity |-> IF SumAt(r.priv, r.highRollers) % 2 = 0 THEN "even" ELSE "odd"]

\* An element of turnEvents: publicRolls and privateRolls are stored as the
\* references they are
SimpleTurnEvents(calls, pubRef, privRef, lastPriv) ==
    [calls |-> calls, publicRolls |-> pubRef, privateRolls |-> privRef,
     lastPrivateRolls |-> lastPriv]

\* sanitizeMove of this revision: gamble is `move.gamble == true`
EventsSanitizeMove(move) == [guess |-> move.guess, gamble |-> move.gamble = "true"]

EventsGetPlayersToPlay == ToSet(highRollers)

\* playMove, lines 141-148: the text of the OutOfTurnError it throws, if any
EventsTurnCheck(player) ==
    IF Cardinality(EventsGetPlayersToPlay) = 0 THEN Some("The game is already over")
    ELSE IF player \notin EventsGetPlayersToPlay
         THEN Some("No legal moves this turn for this player")
    ELSE IF MapHas(pendingMoves, player) THEN Some("Player has already played this turn")
    ELSE None

\* What playMove(move, player) does before it touches the state: the error it throws,
\* if any, and the hooks of the game it has invoked
EventsValidate(move, player) ==
    IF EventsTurnCheck(player) # None
    THEN [error |-> Some(OutOfTurnError(move, player, EventsTurnCheck(player)[1])),
          hooks |-> <<>>]
    ELSE IF SanitizeFails(move)
    THEN [error |-> Some(InvalidMoveError(move, "move does not contain an even/odd guess")),
          hooks |-> <<"sanitizeMove">>]
    ELSE IF MoveIsIllegal(EventsSanitizeMove(move), player)
    THEN [error |-> Some(IllegalMoveError(EventsSanitizeMove(move), player, GambleReason)),
          hooks |-> <<"sanitizeMove", "assertMoveIsLegal">>]
    ELSE [error |-> None, hooks |-> <<"sanitizeMove", "assertMoveIsLegal">>]

\* processTurn of this revision: the game's new fields and the events it pushes
EventsProcessTurn(moves) ==
    LET pts == ScoreMoves(moves, points, highRollsParity)
        lastPriv == Some(heap[privateRolls])
        over == Len(getWinnersOf(pts, options)) # 0
        r == EventsRollAllDice(rollGenerator, options.numPlayers,
                               heap[privateRolls], heap[publicRolls])
    IN  [points |-> pts,
         lastPrivateRolls |-> lastPriv,
         rollGenerator |-> IF over THEN rollGenerator ELSE r.gen,
         heap |-> IF over THEN heap
                  ELSE [heap EXCEPT ![privateRolls] = r.priv, ![publicRolls] = r.pub],
         publicRolls |-> IF over THEN NullRef ELSE publicRolls,
         privateRolls |-> IF over THEN NullRef ELSE privateRolls,
         highRollers |-> IF over THEN <<>> ELSE r.highRollers,
         highRollsParity |-> IF over THEN highRollsParity ELSE r.parity,
         events |-> SimpleTurnEvents(Some(CallsOf(moves, options.numPlayers)),
                                     IF over THEN NullRef ELSE publicRolls,
                                     IF over THEN NullRef ELSE privateRolls,
                                     lastPriv)]

\* The number of moves accepted so far
RECURSIVE EventsCountCalls(_)
EventsCountCalls(es) ==
    IF es = <<>> THEN 0
    ELSE EventsCountCalls(Tail(es))
         + (IF Head(es).calls = None THEN 0
            ELSE Len(SelectSeq(Head(es).calls[1], LAMBDA c : c # None)))

EventsAcceptedMoves == EventsCountCalls(turnEvents) + Len(pendingMoves)

\* The state after `new SimpleGame(raw, seed)`
EventsInitFor(raw, seed) ==
    \E opts \in {WholeOptions(sanitizeOptions(JsOptions(raw)))} :
    \E r \in {EventsRollAllDice(SumCodes(seed) % GeneratorModulus, opts.numPlayers,
                                <<>>, <<>>)} :
        /\ SanitizeOptionsFails(JsOptions(raw)) = None
        /\ options = opts
        /\ numberOfPlayers = opts.numPlayers
        /\ points = [k \in 1..opts.numPlayers |-> 0]
        /\ updates = <<>>
        /\ pendingMoves = <<>>
        /\ rollGenerator = r.gen
        /\ highRollers = r.highRollers
        /\ highRollsParity = r.parity
        /\ publicRolls = PubArr
        /\ privateRolls = PrivArr
        /\ lastPrivateRolls = None
        /\ heap = [a \in {PubArr, PrivArr} |-> IF a = PubArr THEN r.pub ELSE r.priv]
        /\ turnEvents = <<SimpleTurnEvents(None, PubArr, PrivArr, None)>>
        /\ returned = <<>>
        /\ xBoard = 0
        /\ yBoard = 0
        /\ asgMoves = <<>>
        /\ playerToPlay = -1
        /\ last = Call("new", None, None, None, None, <<>>, None)

EventsInit == \E raw \in RawOptions, seed \in Seeds : EventsInitFor(raw, seed)

\* playMove(move, player), as long as fewer than MaxMoves moves have been accepted
EventsPlayMove(move, player) ==
    \E v \in {EventsValidate(move, player)} :
    \E moves \in {MapSet(pendingMoves, player, EventsSanitizeMove(move))} :
        IF v.error # None
        THEN /\ last' = Call("playMove", Some(move), Some(player), v.error, None, v.hooks, None)
             /\ UNCHANGED <<tttVars, engineVars, gameVars, returned>>
        ELSE IF EventsAcceptedMoves >= MaxMoves THEN FALSE
        ELSE IF Cardinality(EventsGetPlayersToPlay) = Len(moves)
        THEN \E g \in {EventsProcessTurn(moves)} :
                 /\ points' = g.points
                 /\ lastPrivateRolls' = g.lastPrivateRolls
                 /\ rollGenerator' = g.rollGenerator
                 /\ heap' = g.heap
                 /\ publicRolls' = g.publicRolls
                 /\ privateRolls' = g.privateRolls
                 /\ highRollers' = g.highRollers
                 /\ highRollsParity' = g.highRollsParity
                 /\ turnEvents' = Append(turnEvents, g.events)
                 /\ pendingMoves' = ClearedMoves(moves)
                 /\ last' = Call("playMove", Some(move), Some(player), None, Some(TRUE),
                                 v.hooks \o <<"processTurn">>, Some(moves))
                 /\ UNCHANGED <<xBoard, yBoard, asgMoves, playerToPlay, updates, options,
                                numberOfPlayers, returned>>
        ELSE /\ pendingMoves' = moves
             /\ last' = Call("playMove", Some(move), Some(player), None, Some(FALSE),
                             v.hooks, None)
             /\ UNCHANGED <<tttVars, updates, options, numberOfPlayers, gameVars, returned>>

\* new TypeError: a property of null is read
TypeError == [kind |-> "TypeError", message |-> "Cannot read property 'map' of null"]

\* copyEvents: calls and lastPrivateRolls are copied, the rolls are the current
\* contents of the arrays the events refer to, or null
copyEvents(events) ==
    [calls |-> events.calls,
     publicRolls |-> IF events.publicRolls = NullRef THEN None
                     ELSE Some(heap[events.publicRolls]),
     privateRolls |-> IF events.privateRolls = NullRef THEN None
                      ELSE Some(heap[events.privateRolls]),
     lastPrivateRolls |-> events.lastPrivateRolls]

\* privateRollsAsSeenByPlayer, on an array
privateRollsAsSeenByPlayer(rolls, player) ==
    [k \in 1..Len(rolls) |-> IF k - 1 = player THEN rolls[k] ELSE -1]

\* The body of the two accessors for one element of turnEvents: whether rolls.map
\* throws, and the copy it returns otherwise
AsSeenByThrows(events) == copyEvents(events).privateRolls = None

AsSeenBy(events, player) ==
    [copyEvents(events) EXCEPT
        !.privateRolls = Some(privateRollsAsSeenByPlayer(@[1], player))]

\* getLatestTurnEventsAsSeenBy(player)
GetLatestTurnEventsAsSeenBy(player) ==
    /\ last' = IF AsSeenByThrows(turnEvents[Len(turnEvents)])
               THEN Call("getLatestTurnEventsAsSeenBy", None, Some(player), Some(TypeError),
                         None, <<>>, None)
               ELSE Call("getLatestTurnEventsAsSeenBy", None, Some(player), None,
                         Some(<<AsSeenBy(turnEvents[Len(turnEvents)], player)>>), <<>>, None)
    /\ UNCHANGED <<tttVars, engineVars, gameVars, returned>>

\* getTurnEventsAsSeenBy(player)
GetTurnEventsAsSeenBy(player) ==
    /\ last' = IF \E k \in 1..Len(turnEvents) : AsSeenByThrows(turnEvents[k])
               THEN Call("getTurnEventsAsSeenBy", None, Some(player), Some(TypeError),
                         None, <<>>, None)
               ELSE Call("getTurnEventsAsSeenBy", None, Some(player), None,
                         Some([k \in 1..Len(turnEvents) |-> AsSeenBy(turnEvents[k], player)]),
                         <<>>, None)
    /\ UNCHANGED <<tttVars, engineVars, gameVars, returned>>

EventsNext ==
    \/ \E move \in RawMoves, player \in Players : EventsPlayMove(move, player)
    \/ \E player \in Players : GetLatestTurnEventsAsSeenBy(player)
    \/ \E player \in Players : GetTurnEventsAsSeenBy(player)

EventsSpec == EventsInit /\ [][EventsNext]_vars

----------------------------------------------------------------------------
(* Tictactoe (src/test/tictactoe.ts) on AbstractStrategyGame, in the        *)
(* revision that matches the engine (src/test/tictactoe_test.ts, lines      *)
(* 200-266). The fields of SimpleGame play no part and keep their initial   *)
(* values.                                                                  *)
(*                                                                          *)
(* A move is a JavaScript value (JsNumber, NaN, JsString, JsUndefined).     *)

MaxCell == 2

NumberOfCells == 9

\* The moves a caller may pass: the cells 0..MaxCell, -1, 9, 0.5, NaN and a string
TictactoeMoves ==
    {JsNumber(2 * c) : c \in 0..MaxCell}
        \cup {JsNumber(-2), JsNumber(2 * NumberOfCells), JsNumber(1), NaN, JsString}

\* ToInt32, on NaN and on the integers of 32 bits
ToInt32(m) == IF m.nan THEN 0 ELSE m.halves \div 2

RECURSIVE Pow2(_)
Pow2(n) == IF n = 0 THEN 1 ELSE 2 * Pow2(n - 1)

\* Math.pow(2, move) for a move that is NaN or a whole number >= 0
MathPow2(m) == IF m.nan THEN NaN ELSE JsNumber(2 * Pow2(m.halves \div 2))

RECURSIVE BitAnd(_, _)
BitAnd(a, b) ==
    IF a = 0 \/ b = 0 THEN 0
    ELSE (a % 2) * (b % 2) + 2 * BitAnd(a \div 2, b \div 2)

RECURSIVE BitOr(_, _)
BitOr(a, b) ==
    IF a = 0 THEN b
    ELSE IF b = 0 THEN a
    ELSE (IF a % 2 = 1 \/ b % 2 = 1 THEN 1 ELSE 0) + 2 * BitOr(a \div 2, b \div 2)

\* Tictactoe.wins
Wins == <<1 + 2 + 4, 8 + 16 + 32, 64 + 128 + 256, 1 + 8 + 64, 2 + 16 + 128,
          4 + 32 + 256, 1 + 16 + 256, 4 + 16 + 64>>

\* sanitizeMove: whether it throws, and what it returns
TictactoeSanitizeFails(move) ==
    \/ move.type # "number"
    \/ ~move.nan /\ move.halves < 0
    \/ ~move.nan /\ move.halves >= 2 * NumberOfCells

TictactoeSanitizeMove(move) == Floor(move)

\* Faulty variant: only the cells of player 0 count as occupied
TictactoeMoveIsIllegalXOnly(move, x, y) ==
    BitAnd(x, ToInt32(MathPow2(move))) # 0

\* assertMoveIsLegal: whether it throws
TictactoeMoveIsIllegal(move, x, y) ==
    \/ BitAnd(x, ToInt32(MathPow2(move))) # 0
    \/ BitAnd(y, ToInt32(MathPow2(move))) # 0

\* processMove: the new xBoard and yBoard
processMove(move, x, y, played) ==
    IF Len(played) % 2 = 0
    THEN [xBoard |-> BitOr(x, ToInt32(MathPow2(move))), yBoard |-> y]
    ELSE [xBoard |-> x, yBoard |-> BitOr(y, ToInt32(MathPow2(move)))]

RECURSIVE StatusFrom(_, _, _)
StatusFrom(k, x, y) ==
    IF k > Len(Wins) THEN "NONE"
    ELSE IF BitAnd(Wins[k], x) = Wins[k] THEN "P1_WIN"
    ELSE IF BitAnd(Wins[k], y) = Wins[k] THEN "P2_WIN"
    ELSE StatusFrom(k + 1, x, y)

\* Faulty variant: a full board is no draw
getStatusNoDraw(x, y, played) ==
    IF StatusFrom(1, x, y) # "NONE" THEN StatusFrom(1, x, y)
    ELSE "IN_PROGRESS"

\* getStatus
getStatus(x, y, played) ==
    IF StatusFrom(1, x, y) # "NONE" THEN StatusFrom(1, x, y)
    ELSE IF Len(played) = NumberOfCells THEN "DRAW"
    ELSE "IN_PROGRESS"

\* AbstractStrategyGame.getWinners
\* Faulty variant: the winner is the player that lost
AsgGetWinnersSwapped(x, y, played) ==
    IF getStatus(x, y, played) = "P1_WIN" THEN <<1>>
    ELSE IF getStatus(x, y, played) = "P2_WIN" THEN <<0>>
    ELSE <<>>

\* AbstractStrategyGame.getWinners
AsgGetWinners(x, y, played) ==
    IF getStatus(x, y, played) = "P1_WIN" THEN <<0>>
    ELSE IF getStatus(x, y, played) = "P2_WIN" THEN <<1>>
    ELSE <<>>

\* AbstractStrategyGame.initialize
AsgInitialize(seed) ==
    [publicInfo |-> None, toPlay |-> <<0>>, winners |-> None, privateInfo |-> None]

\* AbstractStrategyGame.processTurn: the game's new fields and the update it returns
\* (Map.get returns undefined for a player that has no entry)
AsgProcessTurn(moves) ==
    LET move == IF MapHas(moves, Len(asgMoves) % 2) THEN MapGet(moves, Len(asgMoves) % 2)
                ELSE JsUndefined
        b == processMove(move, xBoard, yBoard, asgMoves)
        played == Append(asgMoves, move)
    IN  [xBoard |-> b.xBoard,
         yBoard |-> b.yBoard,
         asgMoves |-> played,
         update |-> [publicInfo |-> Some(move),
                     toPlay |-> IF getStatus(b.xBoard, b.yBoard, played) = "IN_PROGRESS"
                                THEN <<Len(played) % 2>> ELSE <<>>,
                     winners |-> None,
                     privateInfo |-> None]]

\* What playMove(move, player) does on a Tictactoe before it touches the state: the
\* error it throws, if any, and the hooks of the game it has invoked
TictactoeValidate(move, player) ==
    IF TurnCheck(player) # None
    THEN [error |-> Some(OutOfTurnError(player, TurnCheck(player)[1], Undefined)),
          hooks |-> <<>>]
    ELSE IF TictactoeSanitizeFails(move)
    THEN [error |-> Some(InvalidMoveError(move, "Move must be a number from 0 to 8")),
          hooks |-> <<"sanitizeMove">>]
    ELSE IF TictactoeMoveIsIllegal(TictactoeSanitizeMove(move), xBoard, yBoard)
    THEN [error |-> Some(IllegalMoveError(TictactoeSanitizeMove(move), player,
                                          "Position is already occupied")),
          hooks |-> <<"sanitizeMove", "assertMoveIsLegal">>]
    ELSE [error |-> None, hooks |-> <<"sanitizeMove", "assertMoveIsLegal">>]

\* The state after `new Tictactoe()`
TictactoeInit ==
    /\ options = None
    /\ numberOfPlayers = 2
    /\ updates = <<>>
    /\ pendingMoves = <<>>
    /\ xBoard = 0
    /\ yBoard = 0
    /\ asgMoves = <<>>
    /\ playerToPlay = -1
    /\ turnEvents = <<>>
    /\ rollGenerator = 0
    /\ highRollers = <<>>
    /\ highRollsParity = Undefined
    /\ points = <<>>
    /\ publicRolls = PubArr
    /\ privateRolls = PrivArr
    /\ lastPrivateRolls = None
    /\ heap = [a \in {PubArr, PrivArr} |-> <<>>]
    /\ returned = <<>>
    /\ last = Call("new", None, None, None, None, <<>>, None)

\* start(seed) on a Tictactoe
TictactoeStart(seed) ==
    IF Len(updates) > 0
    THEN /\ last' = Call("start", None, None,
                         Some(PlainError("A game can only be started once")), None, <<>>, None)
         /\ UNCHANGED <<engineVars, gameVars, tttVars, returned>>
    ELSE LET update == AttachWinners(AsgInitialize(seed),
                                     AsgGetWinners(xBoard, yBoard, asgMoves))
         IN  /\ updates' = PushUpdate(updates, update)
             /\ returned' = Append(returned, Returned("initialize", update))
             /\ last' = Call("start", None, None, None, None, <<"initialize">>, None)
             /\ UNCHANGED <<pendingMoves, options, numberOfPlayers, gameVars, tttVars>>

\* playMove(move, player) on a Tictactoe
tictactoePlayMove(move, player) ==
    \E v \in {TictactoeValidate(move, player)} :
    \E moves \in {MapSet(pendingMoves, player, TictactoeSanitizeMove(move))} :
        IF v.error # None
        THEN /\ last' = Call("playMove", Some(move), Some(player), v.error, None, v.hooks, None)
             /\ UNCHANGED <<engineVars, gameVars, tttVars, returned>>
        ELSE IF TurnIsComplete(moves)
        THEN \E g \in {AsgProcessTurn(moves)} :
             \E update \in {AttachWinners(g.update,
                                          AsgGetWinners(g.xBoard, g.yBoard, g.asgMoves))} :
                 /\ xBoard' = g.xBoard
                 /\ yBoard' = g.yBoard
                 /\ asgMoves' = g.asgMoves
                 /\ playerToPlay' = playerToPlay
                 /\ turnEvents' = turnEvents
                 /\ updates' = PushUpdate(updates, update)
                 /\ pendingMoves' = ClearedMoves(moves)
                 /\ returned' = Append(returned, Returned("processTurn", update))
                 /\ last' = Call("playMove", Some(move), Some(player), None, Some(TRUE),
                                 v.hooks \o (IF Len(update.toPlay) = 0
                                             THEN <<"processTurn", "getWinners">>
                                             ELSE <<"processTurn">>),
                                 Some(moves))
                 /\ UNCHANGED <<options, numberOfPlayers, gameVars>>
        ELSE /\ pendingMoves' = moves
             /\ last' = Call("playMove", Some(move), Some(player), None, Some(FALSE),
                             v.hooks, None)
             /\ UNCHANGED <<updates, options, numberOfPlayers, gameVars, tttVars, returned>>

\* playMove(move, player) on a Tictactoe, as long as fewer than MaxMoves moves have
\* been accepted
TictactoePlayMove(move, player) ==
    /\ TictactoeValidate(move, player).error = None =>
          Len(asgMoves) + Len(pendingMoves) < MaxMoves
    /\ tictactoePlayMove(move, player)

TictactoeNext ==
    \/ \E seed \in Seeds : TictactoeStart(seed)
    \/ \E move \in TictactoeMoves, player \in Players : TictactoePlayMove(move, player)

TictactoeSpec == TictactoeInit /\ [][TictactoeNext]_vars

----------------------------------------------------------------------------
(* The full game of the Tictactoe test (src/test/tictactoe_test.ts, lines   *)
(* 8-27): the test's playMove calls in the test's order. Between two calls  *)
(* of the test a caller may make any call that fails.                       *)

\* The playMove calls of the test, lines 12-18
TictactoeScenarioMoves ==
    << Submission(FromWhole(0), 0), Submission(FromWhole(1), 1),
       Submission(FromWhole(2), 0), Submission(FromWhole(3), 1),
       Submission(FromWhole(4), 0), Submission(FromWhole(5), 1),
       Submission(FromWhole(6), 0) >>

\* The number of moves accepted so far
TictactoeAcceptedMoves == Len(asgMoves) + Len(pendingMoves)

\* The next playMove of the test: the one after those accepted so far
TictactoeScenarioPlayMove ==
    /\ Len(updates) > 0
    /\ TictactoeAcceptedMoves < Len(TictactoeScenarioMoves)
    /\ tictactoePlayMove(TictactoeScenarioMoves[TictactoeAcceptedMoves + 1].move,
                         TictactoeScenarioMoves[TictactoeAcceptedMoves + 1].player)

\* A playMove that throws
TictactoeFailingPlayMove ==
    \E move \in TictactoeMoves, player \in Players :
        /\ TictactoeValidate(move, player).error # None
        /\ tictactoePlayMove(move, player)

TictactoeScenarioNext ==
    \/ \E seed \in Seeds : TictactoeStart(seed)
    \/ TictactoeScenarioPlayMove
    \/ TictactoeFailingPlayMove

TictactoeScenarioSpec == TictactoeInit /\ [][TictactoeScenarioNext]_vars

----------------------------------------------------------------------------
(* Tictactoe on the whole board: the game opens with the first four calls   *)
(* of the test's full game (src/test/tictactoe_test.ts, lines 12-15) and    *)
(* goes on with any calls; a caller may make any call that fails at any     *)
(* time.                                                                    *)

\* The opening: the first playMove calls of the test
TictactoeOpening == SubSeq(TictactoeScenarioMoves, 1, 4)

\* The moves a caller may pass: every cell, 9 and NaN
BoardMoves == {FromWhole(c) : c \in 0..NumberOfCells} \cup {NaN}

\* The players of an abstract strategy game
AsgPlayers == {0, 1}

\* The next playMove of the opening
TictactoeOpeningPlayMove ==
    /\ Len(updates) > 0
    /\ TictactoeAcceptedMoves < Len(TictactoeOpening)
    /\ tictactoePlayMove(TictactoeOpening[TictactoeAcceptedMoves + 1].move,
                         TictactoeOpening[TictactoeAcceptedMoves + 1].player)

\* Any playMove after the opening, and any playMove that throws
TictactoeBoardPlayMove(move, player) ==
    /\ TictactoeValidate(move, player).error = None =>
          TictactoeAcceptedMoves >= Len(TictactoeOpening)
    /\ tictactoePlayMove(move, player)

TictactoeBoardNext ==
    \/ \E seed \in Seeds : TictactoeStart(seed)
    \/ TictactoeOpeningPlayMove
    \/ \E move \in BoardMoves, player \in AsgPlayers : TictactoeBoardPlayMove(move, player)

TictactoeBoardSpec == TictactoeInit /\ [][TictactoeBoardNext]_vars

----------------------------------------------------------------------------
(* Properties. In an action formula the unprimed variables are the state   *)
(* before a call and last' is that call.                                   *)

Invoked(call, hook) == \E k \in 1..Len(call.hooks) : call.hooks[k] = hook

Accepted(call) == call.op = "playMove" /\ call.error = None

Rejected(call, kind) ==
    call.op = "playMove" /\ call.error # None /\ call.error[1].kind = kind

SanitizedMoves == [guess : {"even", "odd"}, gamble : BOOLEAN]

(* C1. Turn atomicity: an accepted playMove returns false and leaves the    *)
(* history as it is while some player of the current toPlay set has still   *)
(* not submitted; the accepted playMove that completes the set returns true *)
(* and appends exactly one update. No call appends more than one update,    *)
(* and playMove never returns true without appending.                       *)
TurnAtomicity ==
    [][ /\ Len(updates') <= Len(updates) + 1
        /\ (last'.op = "playMove" /\ last'.returned = Some(TRUE))
              => Len(updates') = Len(updates) + 1
        /\ Accepted(last') =>
              IF getPlayersToPlay \subseteq (MapKeys(pendingMoves) \cup {last'.player[1]})
              THEN last'.returned = Some(TRUE) /\ Len(updates') = Len(updates) + 1
              ELSE last'.returned = Some(FALSE) /\ updates' = updates ]_vars

\* A turn of two players has just resolved: the first submission returned false, the
\* second one true
TurnAtomicityWitness ==
    /\ last.op = "playMove"
    /\ last.returned = Some(TRUE)
    /\ Len(last.turnMoves[1]) = 2
    /\ Len(updates) = 2

(* C2. Every processTurn the engine invokes receives a map whose keys are   *)
(* exactly the players of the current toPlay set, one sanitized and legal   *)
(* move each, all of them submitted after the previous turn resolved.       *)
ProcessTurnInput ==
    [][ (last'.op = "playMove" /\ Invoked(last', "processTurn")) =>
          /\ last'.turnMoves # None
          /\ LET moves == last'.turnMoves[1]
             IN  /\ MapKeys(moves) = getPlayersToPlay
                 /\ Len(moves) = Cardinality(MapKeys(moves))
                 /\ \A k \in 1..Len(moves) :
                       /\ moves[k].turn = Len(updates)
                       /\ moves[k].move \in SanitizedMoves
                       /\ ~MoveIsIllegal(moves[k].move, moves[k].player) ]_vars

\* processTurn has been invoked for a second turn, with the moves of two players, one
\* of them a gamble
ProcessTurnInputWitness ==
    /\ last.op = "playMove"
    /\ Invoked(last, "processTurn")
    /\ Len(updates) = 3
    /\ Len(last.turnMoves[1]) = 2
    /\ \E k \in 1..2 : last.turnMoves[1][k].move.gamble

(* C3. Order independence within a turn: whatever the order in which the    *)
(* players of a turn submit their moves, processTurn yields the same update *)
(* and the same game state, and that update is the one appended.            *)
PermsOf(moves) ==
    {[k \in 1..Len(moves) |-> moves[f[k]]] : f \in Permutations(1..Len(moves))}

GameState ==
    [points |-> points, lastPrivateRolls |-> lastPrivateRolls,
     rollGenerator |-> rollGenerator, heap |-> heap, publicRolls |-> publicRolls,
     privateRolls |-> privateRolls, highRollers |-> highRollers,
     highRollsParity |-> highRollsParity]

OrderIndependence ==
    [][ (last'.op = "playMove" /\ Invoked(last', "processTurn")) =>
          \A perm \in PermsOf(last'.turnMoves[1]) :
              LET g == processTurn(perm)
              IN  /\ updates' = Append(updates,
                                       AttachWinners(g.update, getWinnersOf(g.points, options)))
                  /\ GameState' = [f \in DOMAIN GameState |-> g[f]]
                  /\ pendingMoves' = <<>> ]_vars

\* A turn has resolved in which player 1 submitted before player 0, and another move
OrderIndependenceWitness ==
    /\ last.op = "playMove"
    /\ Invoked(last, "processTurn")
    /\ Len(last.turnMoves[1]) = 2
    /\ last.turnMoves[1][1].player = 1
    /\ last.turnMoves[1][2].player = 0
    /\ last.turnMoves[1][1].move # last.turnMoves[1][2].move

(* C4. Pending-buffer invariant: the players holding a buffered move are    *)
(* players of the latest update's toPlay, each holds one move at most, and  *)
(* the buffer is empty right after start and right after every playMove     *)
(* that returns true.                                                       *)
PendingBufferInvariant ==
    /\ MapKeys(pendingMoves) \subseteq getPlayersToPlay
    /\ Cardinality(MapKeys(pendingMoves)) = Len(pendingMoves)
    /\ (last.op = "start" /\ last.error = None) => pendingMoves = <<>>
    /\ (last.op = "playMove" /\ last.returned = Some(TRUE)) => pendingMoves = <<>>

\* A move is buffered in a turn that follows a resolved one
PendingBufferWitness ==
    /\ Len(updates) >= 2
    /\ Len(pendingMoves) = 1
    /\ Cardinality(getPlayersToPlay) = 2

(* C5. History replay: the history is, in call order, the update initialize *)
(* returned followed by the updates the processTurn calls returned, and     *)
(* every call leaves the previous history a prefix of the new one.          *)
IsPrefix(s, t) == Len(s) <= Len(t) /\ SubSeq(t, 1, Len(s)) = s

HistoryReplay ==
    [][ /\ IsPrefix(updates, updates')
        /\ Len(getAllUpdates') = Len(returned')
        /\ \A i \in 1..Len(returned') :
              /\ getAllUpdates'[i] = returned'[i].update
              /\ returned'[i].by = (IF i = 1 THEN "initialize" ELSE "processTurn") ]_vars

\* Two turns have resolved into two different updates
HistoryReplayWitness ==
    /\ Len(updates) = 3
    /\ returned[3].by = "processTurn"
    /\ updates[2] # updates[3]

(* C6. An update is an immutable record: what is read through              *)
(* getAllUpdates()[i] (publicInfo with the dice game's publicRolls, toPlay, *)
(* winners, privateInfo) is the same after any later call as it was when    *)
(* the update was appended.                                                 *)
UpdatesImmutable ==
    [][ \A i \in 1..Len(updates) :
          /\ i <= Len(updates')
          /\ ReadUpdate(getAllUpdates'[i], heap') = ReadUpdate(getAllUpdates[i], heap) ]_vars

(* C7. playMove validates in a fixed order and stops at the first failure:  *)
(* not started, game over, player not in toPlay, player already submitted   *)
(* (OutOfTurnError each, no hook of the game invoked), then sanitizeMove    *)
(* (InvalidMoveError, assertMoveIsLegal not invoked), then                  *)
(* assertMoveIsLegal (IllegalMoveError).                                    *)
FirstFailure(move, player) ==
    CASE updates = <<>> -> 1
      [] updates # <<>> /\ updates[Len(updates)].toPlay = <<>> -> 2
      [] OTHER ->
           IF \A k \in 1..Len(updates[Len(updates)].toPlay) :
                  updates[Len(updates)].toPlay[k] # player
           THEN 3
           ELSE IF \E k \in 1..Len(pendingMoves) : pendingMoves[k].player = player THEN 4
           ELSE IF move.guess \notin {"even", "odd"} THEN 5
           ELSE IF move.gamble = "true"
                   /\ heap[PubArr][player + 1] # heap[PrivArr][player + 1] THEN 6
           ELSE 0

FailureText(f) ==
    CASE f = 1 -> "The game hasn't started yet"
      [] f = 2 -> "The game is already over"
      [] f = 3 -> "No legal moves this turn for this player"
      [] f = 4 -> "Player has already played this turn"

DoubleSubmissionRejected ==
    [][ (last'.op = "playMove" /\ last'.player[1] \in MapKeys(pendingMoves)) =>
          /\ Rejected(last', "OutOfTurnError")
          /\ "Player has already played this turn" \in OutOfTurnText(last'.error[1])
          /\ pendingMoves' = pendingMoves
          /\ updates' = updates ]_vars

\* A player with a buffered move has submitted another, well-formed move and has been
\* rejected
DoubleSubmissionWitness ==
    /\ Rejected(last, "OutOfTurnError")
    /\ MapHas(pendingMoves, last.player[1])
    /\ ~SanitizeFails(last.move[1])
    /\ sanitizeMove(last.move[1]) # MapGet(pendingMoves, last.player[1])

(* C9. Rejection of an ineligible player: in a started game that is not     *)
(* over, playMove for a player that is not in the latest update's toPlay    *)
(* fails with OutOfTurnError and leaves the pending buffer and the history  *)
(* as they are.                                                             *)
IneligiblePlayerRejected ==
    [][ ( /\ last'.op = "playMove"
          /\ Len(updates) > 0
          /\ getPlayersToPlay # {}
          /\ last'.player[1] \notin ToSet(getLatestUpdate.toPlay) ) =>
          /\ Rejected(last', "OutOfTurnError")
          /\ pendingMoves' = pendingMoves
          /\ updates' = updates ]_vars

\* A player of the game whose move is not needed this turn has been rejected while
\* another player's move is buffered
IneligiblePlayerWitness ==
    /\ Rejected(last, "OutOfTurnError")
    /\ last.player[1] \in 0..(options.numPlayers - 1)
    /\ getPlayersToPlay # {}
    /\ last.player[1] \notin getPlayersToPlay
    /\ ~SanitizeFails(last.move[1])

(* C10. Terminal stability: once the latest update's toPlay is empty, every *)
(* playMove fails with OutOfTurnError "already over", the history never     *)
(* grows again and the latest update stays the same.                        *)
IsTerminal == Len(updates) > 0 /\ getLatestUpdate.toPlay = <<>>

TerminalStability ==
    [][ IsTerminal =>
          /\ last'.op = "playMove" =>
                /\ Rejected(last', "OutOfTurnError")
                /\ "The game is already over" \in OutOfTurnText(last'.error[1])
          /\ updates' = updates
          /\ IsTerminal'
          /\ ReadUpdate(getLatestUpdate', heap') = ReadUpdate(getLatestUpdate, heap) ]_vars

\* In a game that is over, a player of the last turn has submitted a well-formed move
\* and has been rejected
TerminalStabilityWitness ==
    /\ IsTerminal
    /\ Rejected(last, "OutOfTurnError")
    /\ ~SanitizeFails(last.move[1])
    /\ last.player[1] \in ToSet(updates[Len(updates) - 1].toPlay)

(* C11. Single start: start succeeds on an instance whose history is empty  *)
(* and only there; on an instance whose history is not empty, awaiting      *)
(* moves or over, it fails with the plain Error "A game can only be started *)
(* once", does not invoke initialize, and leaves the history and the        *)
(* pending buffer as they are.                                              *)
SingleStart ==
    [][ last'.op = "start" =>
          IF updates = <<>>
          THEN /\ last'.error = None
               /\ Invoked(last', "initialize")
               /\ Len(updates') = 1
          ELSE /\ last'.error = Some(PlainError("A game can only be started once"))
               /\ ~Invoked(last', "initialize")
               /\ returned' = returned
               /\ updates' = updates
               /\ pendingMoves' = pendingMoves ]_vars

\* start has been called again while a move of the current turn is buffered
SingleStartWitness ==
    /\ last.op = "start"
    /\ last.error # None
    /\ Len(pendingMoves) = 1
    /\ Len(updates) >= 2

(* C12. playMove before start: while the history is empty every playMove,   *)
(* whatever the move and the player, fails with OutOfTurnError "The game    *)
(* hasn't started yet", invokes no hook of the game and leaves the history  *)
(* and the pending buffer empty and the game's fields as they are; a start  *)
(* that follows such a call succeeds.                                       *)
PlayBeforeStart ==
    [][ /\ (last'.op = "playMove" /\ updates = <<>>) =>
              /\ Rejected(last', "OutOfTurnError")
              /\ "The game hasn't started yet" \in OutOfTurnText(last'.error[1])
              /\ last'.hooks = <<>>
              /\ updates' = <<>>
              /\ pendingMoves' = <<>>
              /\ UNCHANGED gameVars
        /\ (last.op = "playMove" /\ updates = <<>> /\ last'.op = "start") =>
              /\ last'.error = None
              /\ Len(updates') = 1
              /\ pendingMoves' = <<>> ]_vars

\* A well-formed move of player 0 has been rejected on the unstarted instance
PlayBeforeStartWitness ==
    /\ updates = <<>>
    /\ Rejected(last, "OutOfTurnError")
    /\ ~SanitizeFails(last.move[1])
    /\ last.player[1] = 0
    /\ last.move[1].gamble = "true"

(* C14. Illegal but well-formed move: a well-formed move with gamble set,    *)
(* submitted by a player that is to play and has not played yet, fails with *)
(* IllegalMoveError if and only if that player's private roll differs from  *)
(* its public roll, and is accepted when they match; when it fails nothing  *)
(* changes, and a plain guess the same player submits next is accepted.     *)
Eligible(player) ==
    /\ updates # <<>>
    /\ player \in ToSet(updates[Len(updates)].toPlay)
    /\ player \notin MapKeys(pendingMoves)

IllegalGamble ==
    [][ /\ ( /\ last'.op = "playMove"
              /\ Eligible(last'.player[1])
              /\ last'.move[1].guess \in {"even", "odd"}
              /\ last'.move[1].gamble = "true" ) =>
              IF heap[PrivArr][last'.player[1] + 1] # heap[PubArr][last'.player[1] + 1]
              THEN /\ Rejected(last', "IllegalMoveError")
                   /\ UNCHANGED <<engineVars, gameVars, returned>>
              ELSE /\ Accepted(last')
                   /\ \/ MapHas(pendingMoves', last'.player[1])
                      \/ Len(updates') = Len(updates) + 1
        /\ ( /\ Rejected(last, "IllegalMoveError")
              /\ last'.op = "playMove"
              /\ last'.player = last.player
              /\ last'.move[1].guess \in {"even", "odd"}
              /\ last'.move[1].gamble # "true" ) => Accepted(last') ]_vars

\* A gamble of a player whose rolls differ has been rejected while the move of the
\* other player of the turn is buffered
IllegalGambleWitness ==
    /\ Rejected(last, "IllegalMoveError")
    /\ Len(pendingMoves) = 1
    /\ heap[PrivArr][last.player[1] + 1] # heap[PubArr][last.player[1] + 1]

(* C15. An update of the history has winners if and only if its toPlay is   *)
(* empty, and the winners of an update are what getWinners returns right    *)
(* after the initialize or processTurn that produced the update.            *)
WinnersIffOver ==
    [][ /\ \A i \in 1..Len(updates') :
              (updates'[i].winners # None) <=> (updates'[i].toPlay = <<>>)
        /\ Len(updates') = Len(updates) + 1 =>
              LET update == updates'[Len(updates')]
              IN  update.toPlay = <<>> =>
                    /\ update.winners = Some(getWinners')
                    /\ \A p \in 0..(Len(points') - 1) :
                          p \in ToSet(update.winners[1]) <=> points'[p + 1] >= options.numPoints
      ]_vars

\* A game has ended with two winners after an update without winners
WinnersIffOverWitness ==
    /\ IsTerminal
    /\ Len(updates) >= 2
    /\ updates[1].winners = None
    /\ Len(getLatestUpdate.winners[1]) = 2

(* C17. The lifecycle is monotone: an instance goes from UNSTARTED to       *)
(* AWAITING_MOVES or TERMINAL and from AWAITING_MOVES to TERMINAL, never    *)
(* back to UNSTARTED and never out of TERMINAL, and only the last update of *)
(* a history may have an empty toPlay.                                      *)
Phase ==
    IF updates = <<>> THEN "UNSTARTED"
    ELSE IF updates[Len(updates)].toPlay = <<>> THEN "TERMINAL"
    ELSE "AWAITING_MOVES"

LifecycleMonotone ==
    [][ /\ Phase = "AWAITING_MOVES" => Phase' \in {"AWAITING_MOVES", "TERMINAL"}
        /\ Phase = "TERMINAL" => Phase' = "TERMINAL"
        /\ Len(updates') >= Len(updates)
        /\ \A i \in 1..(Len(updates') - 1) : updates'[i].toPlay # <<>> ]_vars

\* A game has gone through the three phases: it is over after two turns
LifecycleMonotoneWitness ==
    /\ Phase = "TERMINAL"
    /\ Len(updates) = 3
    /\ last.op = "playMove"
    /\ last.returned = Some(TRUE)

(* C18. Turn resolution. Liveness: if every player that is to play keeps    *)
(* submitting legal moves (weak fairness of each player's accepted          *)
(* submission), a turn that is awaiting moves eventually resolves and the   *)
(* history grows by one. Safety: the history grows only by the accepted     *)
(* move of the last player of the toPlay set that had not submitted; while  *)
(* some other required player has not submitted, no call makes it grow.     *)
\* playMove accepts some move of player: a plain guess is well formed and legal, so
\* this is when the player is to play, has not played yet and the model has room
CanSubmit(player) == Eligible(player) /\ AcceptedMoves < MaxMoves

\* A step that is an accepted playMove of player
Submitted(player) ==
    last'.op = "playMove" /\ last'.error = None /\ last'.player = Some(player)

\* Weak fairness of each player's accepted submission, with its enabling condition
\* written out: a player that can submit from some point on does submit
LiveSpec ==
    Spec /\ \A player \in 0..(MaxPlayers - 1) :
                []<>(~CanSubmit(player)) \/ []<><<Submitted(player)>>_vars

\* The moves the current turn still needs fit under the bound of the model
TurnFits == CountCalls(updates) + Cardinality(getPlayersToPlay) <= MaxMoves

TurnResolution ==
    /\ [][ (updates # <<>> /\ Len(updates') > Len(updates)) =>
              /\ Accepted(last')
              /\ Len(updates') = Len(updates) + 1
              /\ ToSet(updates[Len(updates)].toPlay) \ MapKeys(pendingMoves)
                    = {last'.player[1]} ]_vars
    /\ \A n \in 1..MaxMoves :
          (Len(updates) = n /\ Phase = "AWAITING_MOVES" /\ TurnFits) ~> (Len(updates) = n + 1)

\* The second turn of a game, a turn of two players in which player 0 submitted first,
\* has resolved
TurnResolutionWitness ==
    /\ last.op = "playMove"
    /\ last.returned = Some(TRUE)
    /\ Len(updates) = 3
    /\ Len(last.turnMoves[1]) = 2
    /\ last.turnMoves[1][1].player = 0

(* C19. getPlayersToPlay returns the set of the players of the latest        *)
(* update's toPlay, and the empty set on an instance that is unstarted or   *)
(* over; getPlayersToPlay, getLatestUpdate and getAllUpdates change neither *)
(* the history nor the pending buffer nor any field of the game, so that    *)
(* the calls that follow proceed as if they had not been made.              *)
Accessors == {"getPlayersToPlay", "getLatestUpdate", "getAllUpdates"}

AccessorsPure ==
    [][ /\ last'.op \in Accessors => UNCHANGED <<engineVars, gameVars, returned>>
        /\ last'.op = "getPlayersToPlay" =>
              /\ last'.error = None
              /\ last'.returned =
                    Some(IF Phase = "AWAITING_MOVES"
                         THEN {updates[Len(updates)].toPlay[k] :
                                   k \in 1..Len(updates[Len(updates)].toPlay)}
                         ELSE {})
        /\ last'.op = "getAllUpdates" => last'.returned = Some(updates) ]_vars

\* getPlayersToPlay has returned the two players of a turn while the move of one of
\* them is buffered
AccessorsPureWitness ==
    /\ last.op = "getPlayersToPlay"
    /\ last.returned = Some({0, 1})
    /\ Len(pendingMoves) = 1

(* C20. getLatestUpdate fails with the plain Error "Game hasn't started     *)
(* yet" on an unstarted instance, and on a started one returns the last     *)
(* element of the history: getAllUpdates()[length - 1].                     *)
LatestIsLast ==
    last.op = "getLatestUpdate" =>
        IF Len(getAllUpdates) = 0
        THEN last.error = Some(PlainError("Game hasn't started yet")) /\ last.returned = None
        ELSE last.error = None /\ last.returned = Some(getAllUpdates[Len(getAllUpdates)])

\* getLatestUpdate has returned the third update of a history, which differs from the
\* first
LatestIsLastWitness ==
    /\ last.op = "getLatestUpdate"
    /\ last.error = None
    /\ Len(updates) = 3
    /\ last.returned[1] # updates[1]

(* C16. Degenerate start: when initialize returns an update whose toPlay is  *)
(* empty, start calls getWinners, attaches what it returns to the update    *)
(* and appends the update as index 0 of the history; the instance is over   *)
(* at once: getPlayersToPlay is empty and every playMove fails with         *)
(* OutOfTurnError "The game is already over".                               *)
DegenerateStart ==
    [][ /\ ( /\ last'.op = "start"
              /\ updates = <<>>
              /\ returned'[1].update.toPlay = <<>> ) =>
              /\ last'.hooks = <<"initialize", "getWinners">>
              /\ Len(returned') = 2
              /\ returned'[2].by = "getWinners"
              /\ updates' = <<[returned'[1].update EXCEPT !.winners = Some(returned'[2].update)]>>
              /\ Phase' = "TERMINAL"
              /\ getPlayersToPlay' = {}
              /\ pendingMoves' = <<>>
        /\ ( /\ last'.op = "playMove"
              /\ Len(updates) = 1
              /\ updates[1].toPlay = <<>> ) =>
              /\ Rejected(last', "OutOfTurnError")
              /\ "The game is already over" \in OutOfTurnText(last'.error[1])
              /\ last'.hooks = <<>>
              /\ updates' = updates
              /\ pendingMoves' = <<>> ]_vars

\* The move of player 0 has been rejected on an instance whose initialize returned an
\* empty toPlay and whose getWinners returned player 0
DegenerateStartWitness ==
    /\ Len(updates) = 1
    /\ updates[1].toPlay = <<>>
    /\ updates[1].winners = Some(<<0>>)
    /\ Rejected(last, "OutOfTurnError")
    /\ last.player = Some(0)

\* A number from 0 up to, not including, 9
IsCellNumber(move) ==
    move.type = "number" /\ ~move.nan /\ move.halves >= 0 /\ move.halves < 2 * NumberOfCells

(* C13. An invalid move is rejected without mutation: a malformed move (the  *)
(* dice game: a guess that is neither "even" nor "odd"; tic-tac-toe: a      *)
(* value that is not a number from 0 up to, not including, 9) submitted by  *)
(* a player that is to play and has not played yet fails with               *)
(* InvalidMoveError and changes nothing, so that a valid move the same      *)
(* player submits next is accepted as if the failed call had not been made. *)
(* This is the statement for tic-tac-toe, in TictactoeSpec.                 *)
InvalidMoveRejected ==
    [][ ( /\ last'.op = "playMove"
          /\ Eligible(last'.player[1])
          /\ ~IsCellNumber(last'.move[1]) ) =>
          /\ Rejected(last', "InvalidMoveError")
          /\ UNCHANGED <<engineVars, tttVars, returned>> ]_vars

\* The statement of C13 for the dice game, in Spec
InvalidGuessRejected ==
    [][ /\ ( /\ last'.op = "playMove"
              /\ Eligible(last'.player[1])
              /\ last'.move[1].guess \notin {"even", "odd"} ) =>
              /\ Rejected(last', "InvalidMoveError")
              /\ UNCHANGED <<engineVars, gameVars, returned>>
        /\ ( /\ Rejected(last, "InvalidMoveError")
              /\ last'.op = "playMove"
              /\ last'.player = last.player
              /\ last'.move[1].guess \in {"even", "odd"}
              /\ last'.move[1].gamble # "true" ) => Accepted(last') ]_vars

(* C21. getAllUpdates fails before start: called on an instance that has     *)
(* not been started, it throws a lifecycle error and returns no value.      *)
AllUpdatesFailsBeforeStart ==
    (last.op = "getAllUpdates" /\ Len(updates) = 0) =>
        last.error # None /\ last.returned = None

(* C22. History and pending moves are exposed only as read-only views or    *)
(* copies: a caller that mutates what getAllUpdates or getLatestUpdate      *)
(* returned (here: empties the toPlay array of the latest update) changes   *)
(* neither the engine's history nor its pending buffer nor the result of a  *)
(* later getPlayersToPlay.                                                  *)
ReadOnlyViews ==
    [][ last'.op = "toPlay.length = 0" =>
          /\ updates' = updates
          /\ pendingMoves' = pendingMoves
          /\ getPlayersToPlay' = getPlayersToPlay ]_vars

\* The ids of the instance's players
PlayerIds == 0..(numberOfPlayers - 1)

(* C23. A player id outside [0, numberOfPlayers), the sentinel -1 included, *)
(* is never accepted as a submitter: playMove with such an id fails with    *)
(* OutOfTurnError before any hook is invoked, and no such id is a key of    *)
(* the pending buffer or an element of the toPlay of an update of the       *)
(* history.                                                                 *)
OutOfRangePlayerRejected ==
    /\ (last.op = "playMove" /\ last.player[1] \notin PlayerIds) =>
          Rejected(last, "OutOfTurnError") /\ last.hooks = <<>>
    /\ MapKeys(pendingMoves) \subseteq PlayerIds
    /\ \A i \in 1..Len(updates) : ToSet(updates[i].toPlay) \subseteq PlayerIds

\* On a started game of one player whose first turn has resolved, a move in the name of
\* player 1 has been rejected
OutOfRangePlayerWitness ==
    /\ numberOfPlayers = 1
    /\ Len(updates) = 2
    /\ updates[2].toPlay # <<>>
    /\ Rejected(last, "OutOfTurnError")
    /\ last.player = Some(1)

(* C26. Every OutOfTurnError raised by playMove carries the engine's reason *)
(* text as its reason, the player argument as its player and the raw move   *)
(* argument as its move.                                                    *)
OutOfTurnErrorFields ==
    Rejected(last, "OutOfTurnError") =>
        /\ last.error[1].reason \in {FailureText(f) : f \in 1..4}
        /\ last.error[1].player = last.player[1]
        /\ last.error[1].move = last.move[1]

\* A whole JavaScript number that is at least 1
IsWholeAtLeastOne(m) == m.type = "number" /\ ~m.nan /\ m.halves >= 2 /\ m.halves % 2 = 0

(* C24. numberOfPlayers is fixed at construction and equals                 *)
(* numberOfPlayersForOptions applied to the sanitized options, a whole      *)
(* number that is at least 1; for the dice game it is the floored           *)
(* numPlayers of the options given, which is also the number of players the *)
(* game keeps points (and rolls dice) for.                                  *)
NumberOfPlayersSanitized ==
    (last.op = "new" /\ last.error = None) =>
        /\ numberOfPlayers = numberOfPlayersForOptions(options)
        /\ IsWholeAtLeastOne(numberOfPlayers)
        /\ numberOfPlayers = Floor(last.move[1].numPlayers)
        /\ FromWhole(Len(points)) = numberOfPlayers

\* A number that is at least 1
IsNumberAtLeastOne(m) == m.type = "number" /\ ~m.nan /\ m.halves >= 2

(* C25. Construction with options that fail the structural validation (the  *)
(* dice game: numPlayers is not a number, or is below 1) fails with         *)
(* InvalidOptionsError and creates no instance; a numPoints that is missing *)
(* or below 1 is no error: it is replaced by 10.                            *)
InvalidOptionsRejected ==
    [][ last'.op = "new" =>
          IF IsNumberAtLeastOne(last'.move[1].numPlayers)
          THEN /\ last'.error = None
               /\ options'.numPoints =
                      IF IsNumberAtLeastOne(last'.move[1].numPoints)
                      THEN last'.move[1].numPoints
                      ELSE FromWhole(DefaultNumPoints)
          ELSE /\ last'.error # None
               /\ last'.error[1].kind = "InvalidOptionsError"
               /\ UNCHANGED <<options, numberOfPlayers, points>> ]_vars

\* The sanitized move {guess: parity}
Called(parity) == Some([guess |-> parity, gamble |-> FALSE])

\* An update as a caller reads it
UpdateOf(calls, publicRollsRead, lastPrivateRollsRead, privateRollsRead, toPlay, winners) ==
    [publicInfo |-> [calls |-> calls, publicRolls |-> publicRollsRead,
                     lastPrivateRolls |-> lastPrivateRollsRead],
     toPlay |-> toPlay,
     winners |-> winners,
     privateInfo |-> IF privateRollsRead = None THEN None
                     ELSE Some([k \in 1..Len(privateRollsRead[1]) |->
                                  [privateRoll |-> privateRollsRead[1][k]]])]

\* The latest update as a caller reads it
LatestRead == ReadUpdate(getLatestUpdate, heap)

(* C27. Dice scenario (3 players, 5 points, seed "test_seed"): after start  *)
(* the latest update has calls null, publicRolls [6,1,4], private rolls     *)
(* [5,2,2], one privateInfo entry per player, lastPrivateRolls null and     *)
(* toPlay [0]; player 0's {guess: "even"} is accepted and resolves the      *)
(* turn, and the latest update then has calls [{guess: "even"}, null,       *)
(* null], publicRolls [4,1,1], lastPrivateRolls [5,2,2] and private rolls   *)
(* [3,3,2].                                                                 *)
ScenarioOpening ==
    /\ (Len(updates) > 0 /\ AcceptedMoves = 0) =>
          /\ Len(updates) = 1
          /\ LatestRead = UpdateOf(None, Some(<<6, 1, 4>>), None, Some(<<5, 2, 2>>),
                                   <<0>>, None)
    /\ (Len(updates) > 0 /\ AcceptedMoves = 1) =>
          /\ Len(updates) = 2
          /\ pendingMoves = <<>>
          /\ LatestRead = UpdateOf(Some(<<Called("even"), None, None>>), Some(<<4, 1, 1>>),
                                   Some(<<5, 2, 2>>), Some(<<3, 3, 2>>), <<0>>, None)
    /\ (Len(updates) = 1 /\ last.op = "playMove" /\ last.error # None) =>
          <<last.move, last.player>> # <<Some(Guess("even")), Some(0)>>

\* Player 0's {guess: "even"} has just resolved the first turn
ScenarioOpeningWitness ==
    /\ Len(updates) = 2
    /\ last.op = "playMove"
    /\ last.move = Some(Guess("even"))
    /\ last.player = Some(0)
    /\ last.returned = Some(TRUE)

\* The terminal update the test reads at its end (lines 84-92)
ScenarioLastUpdate ==
    UpdateOf(Some(<<Called("odd"), None, None>>), None, Some(<<3, 3, 2>>), None, <<>>,
             Some(<<0>>))

\* No call of the test has been rejected: a playMove that has just failed is not the
\* one the test makes next
ScenarioMovesAccepted ==
    (Len(updates) > 0 /\ AcceptedMoves < Len(ScenarioMoves) /\ last.op = "playMove"
       /\ last.error # None) =>
        Submission(last.move[1], last.player[1]) # ScenarioMoves[AcceptedMoves + 1]

\* The game is over
ScenarioOver == Len(updates) > 0 /\ getPlayersToPlay = {}

(* C28, as stated. Dice full game (3 players, 5 points, seed "test_seed"):  *)
(* the 14 submissions of the test, in the test's order, are all accepted    *)
(* and resolve exactly 10 turns, and the 10th resolved update is terminal   *)
(* with calls [{guess: "odd"}, null, null], publicRolls null, privateInfo   *)
(* null, lastPrivateRolls [3,3,2] and winners [0].                          *)
FullGameAsStated ==
    /\ ScenarioMovesAccepted
    /\ ScenarioOver =>
          /\ AcceptedMoves = 14
          /\ Len(updates) = 10 + 1
          /\ LatestRead = ScenarioLastUpdate

(* C28, amended. The test makes 13 submissions; in the test's order they    *)
(* are all accepted and resolve exactly 9 turns: the game is not over       *)
(* before the 13th is accepted, and then the history holds 10 updates (the  *)
(* initial one and 9 resolved ones), the last of them terminal with calls   *)
(* [{guess: "odd"}, null, null], publicRolls null, privateInfo null,        *)
(* lastPrivateRolls [3,3,2] and winners [0].                                *)
FullGame ==
    /\ ScenarioMovesAccepted
    /\ Len(ScenarioMoves) = 13
    /\ ScenarioOver <=> AcceptedMoves = 13
    /\ ScenarioOver =>
          /\ Len(updates) = 9 + 1
          /\ pendingMoves = <<>>
          /\ LatestRead = ScenarioLastUpdate

\* The last submission of the test has just ended the game
FullGameWitness ==
    /\ ScenarioOver
    /\ Accepted(last)
    /\ last.returned = Some(TRUE)
    /\ Submission(last.move[1], last.player[1]) = ScenarioMoves[Len(ScenarioMoves)]
    /\ updates[Len(updates)].winners = Some(<<0>>)

\* The publicInfo of the updates of the history, in order
PublicInfos == [i \in 1..Len(updates) |-> updates[i].publicInfo]

(* C29. Tic-tac-toe scenario: after start, the moves 0,1,2,3,4,5,6 played   *)
(* alternately by players 0 and 1, player 0 first, are all accepted; the    *)
(* game is over once the last of them is accepted and not before, and then  *)
(* the winners are [0], getPlayersToPlay is empty and the publicInfo of the *)
(* history is [null,0,1,2,3,4,5,6].                                         *)
TictactoeFullGame ==
    /\ (Len(updates) > 0 /\ TictactoeAcceptedMoves < Len(TictactoeScenarioMoves)
          /\ last.op = "playMove" /\ last.error # None) =>
          Submission(last.move[1], last.player[1])
              # TictactoeScenarioMoves[TictactoeAcceptedMoves + 1]
    /\ (Len(updates) > 0 /\ getPlayersToPlay = {})
          <=> TictactoeAcceptedMoves = Len(TictactoeScenarioMoves)
    /\ TictactoeAcceptedMoves = Len(TictactoeScenarioMoves) =>
          /\ getLatestUpdate.winners = Some(<<0>>)
          /\ getPlayersToPlay = {}
          /\ PublicInfos = <<None>> \o [k \in 1..7 |-> Some(FromWhole(k - 1))]

\* Player 0's move 6 has just ended the game
TictactoeFullGameWitness ==
    /\ Len(updates) = 8
    /\ Accepted(last)
    /\ last.returned = Some(TRUE)
    /\ last.move = Some(FromWhole(6))
    /\ last.player = Some(0)
    /\ getLatestUpdate.winners = Some(<<0>>)

(* C30. Seeded determinism: the history and the state of a dice game are a  *)
(* function of its options, of the sum of the seed's character codes modulo *)
(* 127 and of the moves accepted in each turn. Replay computes that         *)
(* function; two instances given the same options, seeds of the same        *)
(* residue and the same calls are therefore in the same state after every   *)
(* call, and so return or throw the same.                                   *)

\* The entries of a turn's map, from the calls of the turn's update
RECURSIVE EntriesOf(_, _)
EntriesOf(calls, i) ==
    IF i > Len(calls) THEN <<>>
    ELSE (IF calls[i] = None THEN <<>> ELSE <<[player |-> i - 1, move |-> calls[i][1]]>>)
         \o EntriesOf(calls, i + 1)

\* The game after start(seed)
ReplayStart(seed) ==
    LET r == rollAllDice(SumCodes(seed) % 127, options.numPlayers, <<>>, <<>>)
    IN  [gen |-> r.gen, priv |-> r.priv, pub |-> r.pub, highRollers |-> r.highRollers,
         parity |-> r.parity, points |-> [k \in 1..options.numPlayers |-> 0],
         lastPriv |-> None, over |-> FALSE]

\* The game g after a turn that was given the moves calls
ReplayTurn(g, calls) ==
    LET pts == ScoreMoves(EntriesOf(calls, 1), g.points, g.parity)
        r == rollAllDice(g.gen, options.numPlayers, g.priv, g.pub)
    IN  IF getWinnersOf(pts, options) # <<>>
        THEN [g EXCEPT !.points = pts, !.lastPriv = Some(g.priv), !.highRollers = <<>>,
                       !.over = TRUE]
        ELSE [gen |-> r.gen, priv |-> r.priv, pub |-> r.pub, highRollers |-> r.highRollers,
              parity |-> r.parity, points |-> pts, lastPriv |-> Some(g.priv),
              over |-> FALSE]

\* The game after start(seed) and the turns of the first i updates of the history
RECURSIVE Replay(_, _)
Replay(seed, i) ==
    IF i = 1 THEN ReplayStart(seed)
    ELSE ReplayTurn(Replay(seed, i - 1), updates[i].publicInfo.calls[1])

\* The update the game g returns for a turn that was given the moves calls
ReplayedUpdate(g, calls) ==
    UpdateOf(calls, IF g.over THEN None ELSE Some(g.pub), g.lastPriv,
             IF g.over THEN None ELSE Some(g.priv), g.highRollers,
             IF g.highRollers = <<>> THEN Some(getWinnersOf(g.points, options)) ELSE None)

\* An update without the content of its publicRolls, which later turns overwrite
WithoutRolls(update) ==
    [update EXCEPT !.publicInfo.publicRolls = IF @ = None THEN None ELSE Some(<<>>)]

SeededDeterminism ==
    Len(updates) > 0 =>
        \E seed \in Seeds :
        \A other \in Seeds :
            SumCodes(other) % 127 = SumCodes(seed) % 127 =>
                LET g == Replay(other, Len(updates))
                IN  /\ points = g.points
                    /\ rollGenerator = g.gen
                    /\ highRollers = g.highRollers
                    /\ highRollsParity = g.parity
                    /\ lastPrivateRolls = g.lastPriv
                    /\ IF g.over THEN publicRolls = NullRef /\ privateRolls = NullRef
                       ELSE heap[publicRolls] = g.pub /\ heap[privateRolls] = g.priv
                    /\ LatestRead = ReplayedUpdate(g, getLatestUpdate.publicInfo.calls)
                    /\ \A i \in 1..Len(updates) :
                          WithoutRolls(ReadUpdate(updates[i], heap))
                              = WithoutRolls(ReplayedUpdate(Replay(other, i),
                                                            updates[i].publicInfo.calls))

\* Two turns of a game of two players started with "test_seed" or "G" have resolved,
\* and a gamble has been rejected since
SeededDeterminismWitness ==
    /\ Len(updates) = 3
    /\ numberOfPlayers = 2
    /\ rollGenerator # 0
    /\ Rejected(last, "IllegalMoveError")

\* The players, in ascending order, that satisfy Test
PlayersWhere(Test(_)) == SelectSeq([k \in 1..options.numPlayers |-> k - 1], Test)

ParityToGuess ==
    IF SumAt(heap[privateRolls], getLatestUpdate.toPlay) % 2 = 0 THEN "even" ELSE "odd"

\* What a sanitized move is worth
Gain(move) ==
    IF move.guess = ParityToGuess THEN (IF move.gamble THEN 3 ELSE 1)
    ELSE (IF move.gamble THEN -1 ELSE 0)

(* C34. Dice-game scoring: when a turn resolves, the points of each player  *)
(* that submitted change by +1 for a correct plain guess, 0 for a wrong     *)
(* plain guess, +3 for a correct gamble and -1 for a wrong gamble, where    *)
(* correct means that the guess is the parity of the sum of the private     *)
(* rolls of the turn's high rollers; the points of the other players do not *)
(* change, and points change at no other time.                              *)
Scoring ==
    [][ IF last'.op = "playMove" /\ last'.returned = Some(TRUE)
        THEN LET moves == last'.turnMoves[1]
             IN  /\ MapKeys(moves) = ToSet(getLatestUpdate.toPlay)
                 /\ \A p \in 0..(options.numPlayers - 1) :
                       At(points', p) =
                           At(points, p) + (IF MapHas(moves, p) THEN Gain(MapGet(moves, p))
                                            ELSE 0)
        ELSE points' = points ]_vars

\* A turn has resolved in which player 0 won a gamble and player 1 lost one
ScoringWitness ==
    /\ last.op = "playMove"
    /\ last.returned = Some(TRUE)
    /\ Len(last.turnMoves[1]) = 2
    /\ \A k \in 1..2 : last.turnMoves[1][k].move.gamble
    /\ Len(updates) = 2
    /\ points = <<3, -1>>

LatestPublicRolls ==
    IF updates = <<>> THEN <<>>
    ELSE IF LatestRead.publicInfo.publicRolls = None THEN <<>>
    ELSE LatestRead.publicInfo.publicRolls[1]

LatestPrivateRolls ==
    IF updates = <<>> THEN <<>>
    ELSE IF LatestRead.privateInfo = None THEN <<>>
    ELSE [k \in 1..Len(LatestRead.privateInfo[1]) |-> LatestRead.privateInfo[1][k].privateRoll]

\* The generator after n steps of state' = (state * 8191) mod 127
RECURSIVE Steps(_, _)
Steps(state, n) == IF n = 0 THEN state ELSE Steps((state * 8191) % 127, n - 1)

(* C40. Dice generator: the generator state is always in 0..126 and steps   *)
(* as state' = (state * 8191) mod 127, once per roll, from the seeded state *)
(* at start and from the current state at each later roll of the dice (its  *)
(* only changes); the rolls reported in an update are 1 + (state mod 6) for *)
(* the successive states (private roll of player 0, public roll of player   *)
(* 0, private roll of player 1, ...), hence in 1..6; once the state is 0 in *)
(* a started game (the empty seed) it stays 0, every public and private     *)
(* roll is 1, every player is in toPlay every turn and every player's       *)
(* gamble is legal.                                                          *)
DiceGenerator ==
    /\ [](/\ rollGenerator \in 0..126
          /\ \A k \in 1..Len(LatestPublicRolls) : LatestPublicRolls[k] \in 1..6
          /\ \A k \in 1..Len(LatestPrivateRolls) : LatestPrivateRolls[k] \in 1..6
          /\ (Phase = "AWAITING_MOVES" /\ rollGenerator = 0) =>
                /\ LatestPublicRolls = [k \in 1..options.numPlayers |-> 1]
                /\ LatestPrivateRolls = [k \in 1..options.numPlayers |-> 1]
                /\ getPlayersToPlay = 0..(options.numPlayers - 1)
                /\ \A player \in 0..(options.numPlayers - 1), guess \in {"even", "odd"} :
                      ~MoveIsIllegal(sanitizeMove([guess |-> guess, gamble |-> TRUE]), player))
    /\ [][ /\ (Len(updates') > Len(updates) /\ Phase' = "AWAITING_MOVES") =>
                 \E base \in (IF updates = <<>>
                               THEN {SumCodes(seed) % 127 : seed \in Seeds}
                               ELSE {rollGenerator}) :
                    /\ rollGenerator' = Steps(base, 2 * options.numPlayers)
                    /\ LatestPrivateRolls' = [k \in 1..options.numPlayers |->
                                                 1 + (Steps(base, 2 * k - 1) % 6)]
                    /\ LatestPublicRolls' = [k \in 1..options.numPlayers |->
                                                1 + (Steps(base, 2 * k) % 6)]
           /\ ~(Len(updates') > Len(updates) /\ Phase' = "AWAITING_MOVES") =>
                 rollGenerator' = rollGenerator
           /\ (updates # <<>> /\ rollGenerator = 0) => rollGenerator' = 0 ]_vars

\* C40 witness: a second turn resolved in a game of two players started with the empty
\* seed has rolled ones only, while another game's generator has left 0
DiceGeneratorWitness ==
    /\ Len(updates) = 3
    /\ Phase = "AWAITING_MOVES"
    /\ rollGenerator = 0
    /\ options.numPlayers = 2
    /\ LatestPublicRolls = <<1, 1>>
    /\ LatestPrivateRolls = <<1, 1>>
    /\ \E k \in 1..2 : updates[3].publicInfo.calls[1][k] # None
                          /\ updates[3].publicInfo.calls[1][k][1].gamble

(* C38. No partial mutation on failure during resolution: if processTurn    *)
(* (or getWinners) throws while playMove is resolving a turn, the exception *)
(* propagates from playMove and updates and pendingMoves are as they were   *)
(* before the call, so the last submitter is not recorded as having played. *)
ResolutionFailureLeavesEngine ==
    [][ (last'.op = "playMove" /\ last'.error # None /\ Invoked(last', "processTurn")) =>
          /\ updates' = updates
          /\ pendingMoves' = pendingMoves
          /\ ~MapHas(pendingMoves', last'.player[1]) ]_vars

\* The boards after the first k moves of played, by processMove from empty boards
RECURSIVE BoardsAfter(_, _)
BoardsAfter(played, k) ==
    IF k = 0 THEN [xBoard |-> 0, yBoard |-> 0]
    ELSE LET b == CHOOSE r \in {BoardsAfter(played, k - 1)} : TRUE
         IN  processMove(played[k], b.xBoard, b.yBoard, SubSeq(played, 1, k - 1))

\* The status after the first k accepted moves
StatusAfter(k) ==
    LET b == CHOOSE r \in {BoardsAfter(asgMoves, k)} : TRUE
    IN  getStatus(b.xBoard, b.yBoard, SubSeq(asgMoves, 1, k))

(* C32. Abstract-strategy adapter: the initial update has publicInfo null   *)
(* and toPlay [0]; the update after the k-th accepted move has that move as *)
(* publicInfo and toPlay [k mod 2] while the status is IN_PROGRESS, empty   *)
(* otherwise; the k-th accepted move is player (k - 1) mod 2's and its      *)
(* playMove returns true; a terminal update's winners is [0] for P1_WIN,    *)
(* [1] for P2_WIN and empty for DRAW, and an update in progress has none.   *)
AdapterUpdates ==
    /\ [](Len(updates) > 0 =>
            /\ Len(updates) = Len(asgMoves) + 1
            /\ updates[1].publicInfo = None
            /\ updates[1].toPlay = <<0>>
            /\ updates[1].winners = None
            /\ \A k \in 1..Len(asgMoves) : \E status \in {StatusAfter(k)} :
                  /\ updates[k + 1].publicInfo = Some(asgMoves[k])
                  /\ updates[k + 1].toPlay = IF status = "IN_PROGRESS"
                                             THEN <<k % 2>> ELSE <<>>
                  /\ updates[k + 1].winners =
                        CASE status = "P1_WIN" -> Some(<<0>>)
                          [] status = "P2_WIN" -> Some(<<1>>)
                          [] status = "DRAW" -> Some(<<>>)
                          [] OTHER -> None
                  /\ updates[k + 1].winners \notin {Some(<<0, 1>>), Some(<<1, 0>>)})
    /\ [][ Accepted(last') =>
             /\ last'.returned = Some(TRUE)
             /\ last'.player = Some(Len(asgMoves) % 2)
             /\ asgMoves' = Append(asgMoves, TictactoeSanitizeMove(last'.move[1])) ]_vars

\* C32 witness: player 1 wins with the eighth move, after the players have alternated
AdapterUpdatesWitness ==
    /\ Len(updates) = 9
    /\ Accepted(last)
    /\ last.player = Some(1)
    /\ StatusAfter(8) = "P2_WIN"
    /\ updates[9].toPlay = <<>>
    /\ updates[9].winners = Some(<<1>>)
    /\ \A k \in 1..7 : updates[k + 1].toPlay = <<k % 2>>

\* The eight lines of the board, as sets of cells
Lines == {{0, 1, 2}, {3, 4, 5}, {6, 7, 8}, {0, 3, 6}, {1, 4, 7}, {2, 5, 8},
          {0, 4, 8}, {2, 4, 6}}

\* The cells of the accepted moves of a player, read from the moves played
CellsOf(player) ==
    {ToWhole(asgMoves[k]) : k \in {j \in 1..Len(asgMoves) :
                                     (j - 1) % 2 = player /\ IsCellNumber(asgMoves[j])}}

HasLine(player) == \E line \in Lines : line \subseteq CellsOf(player)

(* C35. Tic-tac-toe always terminates: under any sequence of playMove calls *)
(* at most 9 turns resolve (the history never exceeds 10 updates); the game *)
(* is terminal exactly when a player has completed one of the 8 lines or 9  *)
(* moves have been accepted (without a line: a draw, winners empty), and    *)
(* while it is in progress the player to play has a legal move.             *)
TictactoeTerminates ==
    /\ Len(updates) <= NumberOfCells + 1
    /\ Len(asgMoves) <= NumberOfCells
    /\ Len(updates) > 0 =>
          /\ IsTerminal <=> (HasLine(0) \/ HasLine(1) \/ Len(asgMoves) = NumberOfCells)
          /\ (IsTerminal /\ ~HasLine(0) /\ ~HasLine(1)) => getLatestUpdate.winners = Some(<<>>)
          /\ ~IsTerminal =>
                \E player \in getPlayersToPlay, cell \in 0..(NumberOfCells - 1) :
                    TictactoeValidate(FromWhole(cell), player).error = None

\* C35 witness: a draw on a full board, reached with the ninth accepted move
TictactoeTerminatesWitness ==
    /\ Len(updates) = 10
    /\ Accepted(last)
    /\ IsTerminal
    /\ CellsOf(0) \cup CellsOf(1) = 0..8
    /\ ~HasLine(0)
    /\ ~HasLine(1)
    /\ getLatestUpdate.winners = Some(<<>>)

\* The 9-bit pattern of a set of cells
RECURSIVE PatternOf(_)
PatternOf(cells) ==
    IF cells = {} THEN 0
    ELSE LET c == CHOOSE x \in cells : TRUE IN Pow2(c) + PatternOf(cells \ {c})

(* C36. Tic-tac-toe board integrity: a move of the player to play onto a    *)
(* cell is accepted if and only if neither player occupies the cell; a move *)
(* onto an occupied cell fails with IllegalMoveError and changes nothing;   *)
(* in every reachable state no cell belongs to both players, player 0's     *)
(* board is exactly the cells of the even-indexed accepted moves and player *)
(* 1's those of the odd-indexed ones, and at most one player has a          *)
(* completed line.                                                           *)
BoardIntegrity ==
    /\ [](/\ CellsOf(0) \cap CellsOf(1) = {}
          /\ BitAnd(xBoard, yBoard) = 0
          /\ xBoard = PatternOf(CellsOf(0))
          /\ yBoard = PatternOf(CellsOf(1))
          /\ ~(HasLine(0) /\ HasLine(1))
          /\ ~(\E k \in 1..Len(Wins) : BitAnd(Wins[k], xBoard) = Wins[k])
               \/ ~(\E k \in 1..Len(Wins) : BitAnd(Wins[k], yBoard) = Wins[k]))
    /\ [][ /\ (last'.op = "playMove" /\ Invoked(last', "assertMoveIsLegal")
                /\ IsCellNumber(last'.move[1])) =>
                 (Accepted(last') <=>
                     ToWhole(Floor(last'.move[1])) \notin CellsOf(0) \cup CellsOf(1))
           /\ (last'.op = "playMove" /\ last'.error # None
                /\ last'.error[1].kind = "IllegalMoveError") =>
                 /\ ToWhole(last'.error[1].move) \in CellsOf(0) \cup CellsOf(1)
                 /\ last'.error[1].reason = "Position is already occupied"
                 /\ UNCHANGED <<engineVars, tttVars, returned>> ]_vars

\* C36 witness: player 1's move onto a cell of player 0 has just been rejected, on a
\* board where both players hold cells
BoardIntegrityWitness ==
    /\ last.op = "playMove"
    /\ last.error # None
    /\ last.error[1].kind = "IllegalMoveError"
    /\ last.player = Some(1)
    /\ ToWhole(last.error[1].move) \in CellsOf(0)
    /\ Cardinality(CellsOf(0)) = 3
    /\ Cardinality(CellsOf(1)) = 2

(* C31. Alternating-turns adapter: in every reachable state                 *)
(* getPlayersToPlay has at most one player: it is {getPlayerToPlay()}       *)
(* unless getPlayerToPlay() returns -1, and empty exactly then; no move is  *)
(* ever left pending; each accepted playMove is the move of the player      *)
(* whose turn it was, resolves a turn (returns true, one more update) and   *)
(* processMove receives exactly that player's sanitized move.               *)
AlternatingTurns ==
    /\ [](/\ Cardinality(AtgGetPlayersToPlay) <= 1
          /\ getPlayerToPlay # -1 => AtgGetPlayersToPlay = {getPlayerToPlay}
          /\ AtgGetPlayersToPlay = {} <=> getPlayerToPlay = -1
          /\ pendingMoves = <<>>)
    /\ [][ Accepted(last') =>
             /\ last'.returned = Some(TRUE)
             /\ last'.player = Some(getPlayerToPlay)
             /\ getPlayerToPlay # -1
             /\ updates' = Append(updates,
                                  AtgUpdate(<<"processed", <<"sanitized", last'.move[1]>>>>))
             /\ pendingMoves' = <<>> ]_vars

\* C31 witness: player 1's move has just resolved the second turn and ended the game
AlternatingTurnsWitness ==
    /\ Len(updates) = 3
    /\ Accepted(last)
    /\ last.player = Some(1)
    /\ last.returned = Some(TRUE)
    /\ updates[2].publicInfo = <<"processed", <<"sanitized", "a">>>>
    /\ updates[3].publicInfo = <<"processed", <<"sanitized", "b">>>>
    /\ getPlayerToPlay = -1
    /\ AtgGetPlayersToPlay = {}

(* C39. Per-observer view of the dice game (turn-events API): in every      *)
(* reachable state, including after the game has ended,                     *)
(* getTurnEventsAsSeenBy(p) and getLatestTurnEventsAsSeenBy(p) return       *)
(* events in which privateRolls[i] is the real roll only for i = p and -1   *)
(* for every other index, and for a spectator or invalid id (-1) every      *)
(* private roll is -1.                                                      *)
PerObserverView ==
    (last.op \in {"getTurnEventsAsSeenBy", "getLatestTurnEventsAsSeenBy"}) =>
        /\ last.error = None
        /\ \A k \in 1..Len(last.returned[1]) :
              /\ last.returned[1][k].privateRolls # None
              /\ \A i \in 0..(options.numPlayers - 1) :
                    At(last.returned[1][k].privateRolls[1], i) =
                        IF i = last.player[1] THEN At(heap[privateRolls], i) ELSE -1

====
